---------------------------- MODULE Spec2Model ----------------------------
(***************************************************************************)
(* Verification model of the bp-std wallet primitives: absolute timelocks  *)
(* (psbt/src/timelocks.rs), the taproot script tree builder and control    *)
(* block factory (derive/src/taptree.rs), derivation paths                 *)
(* (derive/src/path.rs) and the output descriptor parsers                  *)
(* (descriptors/src/compiler/compile.rs).                                  *)
(*                                                                         *)
(* Each subsystem is a group of variables with its own initial predicate   *)
(* and its own actions; dom names the subsystem a behaviour exercises and  *)
(* the variables of the other subsystems stay at their idle values.        *)
(***************************************************************************)
EXTENDS Integers, Sequences, FiniteSets, TLC

VARIABLES
    dom,            \* subsystem exercised by the behaviour
    lt_value,       \* timelocks: the u32 handed to the conversions
    lt_height,      \* timelocks: result of LockHeight::try_from(lt_value)
    lt_timestamp,   \* timelocks: result of LockTimestamp::try_from(lt_value)
    fed,            \* taptree: the leaves the caller has passed to push_leaf so far
    builder,        \* taptree: the TapTreeBuilder {leaves, buoy, finalized}
    pushRes,        \* taptree: result of the last push_leaf call
    finishRes,      \* taptree: result of TapTreeBuilder::finish
    flRes,          \* taptree: result of TapTree::from_leaves(fed)
    root,           \* taptree: result of TapTree::merkle_root on the finished tree
    factory,        \* taptree: the ControlBlockFactory built from the finished tree
    emitted,        \* taptree: what ControlBlockFactory::next has returned so far
    path,           \* paths: a DerivationPath<DerivationIndex>
    term,           \* paths: result of DerivationPath::terminal
    src,            \* descriptors: the descriptor whose text is parsed
    text,           \* descriptors: the descriptor string
    r_std,          \* descriptors: result of StdDescr::from_str(text)
    r_var,          \* descriptors: result of the variant's own from_str(text)
    call,           \* functions without state: the function called and its arguments
    ret             \* functions without state: what the call returned

ltVars   == <<lt_value, lt_height, lt_timestamp>>
tapVars  == <<fed, builder, pushRes, finishRes, flRes, root, factory, emitted>>
pathVars == <<path, term>>
dscVars  == <<src, text, r_std, r_var>>
callVars == <<call, ret>>
vars     == <<dom, ltVars, tapVars, pathVars, dscVars, callVars>>

-----------------------------------------------------------------------------
(* Generic helpers *)

\* No function without state has been called
NoCallYet == [fn |-> "none"]

NoRet == [kind |-> "none"]

CallIdle == call = NoCallYet /\ ret = NoRet

Last(s) == s[Len(s)]

Front(s) == SubSeq(s, 1, Len(s) - 1)

Min(a, b) == IF a <= b THEN a ELSE b

RECURSIVE Reverse(_)
Reverse(s) == IF s = <<>> THEN <<>> ELSE Append(Reverse(Tail(s)), Head(s))

-----------------------------------------------------------------------------
(* Timelocks: psbt/src/timelocks.rs *)

LOCKTIME_THRESHOLD == 500000000

\* Half-width of the windows of u32 values tried at 0 and around the threshold
TimelockSpan == 20

TimelockInputs ==
    (0 .. TimelockSpan)
        \cup ((LOCKTIME_THRESHOLD - TimelockSpan) .. (LOCKTIME_THRESHOLD + TimelockSpan))

NoCall == [kind |-> "none", val |-> 0]

InvalidTimelock(v) == [kind |-> "Err", val |-> v]

\* bp::LockTime::is_height_based of LockTime::from_consensus_u32(lock_time)
is_height_based(lock_time) == lock_time < LOCKTIME_THRESHOLD

LockTimestamp_try_from_consensus_u32(lock_time) ==
    IF ~is_height_based(lock_time)
    THEN InvalidTimelock(lock_time)
    ELSE [kind |-> "Ok", val |-> lock_time]

LockHeight_try_from_consensus_u32(lock_time) ==
    IF ~is_height_based(lock_time)
    THEN InvalidTimelock(lock_time)
    ELSE [kind |-> "Ok", val |-> lock_time]

LockTimestamp_try_from(value) == LockTimestamp_try_from_consensus_u32(value)

LockHeight_try_from(value) == LockHeight_try_from_consensus_u32(value)

LtIdle == lt_value = 0 /\ lt_height = NoCall /\ lt_timestamp = NoCall

CallLockHeightTryFrom ==
    /\ dom = "timelock"
    /\ lt_height = NoCall
    /\ lt_height' = LockHeight_try_from(lt_value)
    /\ UNCHANGED <<dom, lt_value, lt_timestamp, tapVars, pathVars, dscVars, callVars>>

CallLockTimestampTryFrom ==
    /\ dom = "timelock"
    /\ lt_timestamp = NoCall
    /\ lt_timestamp' = LockTimestamp_try_from(lt_value)
    /\ UNCHANGED <<dom, lt_value, lt_height, tapVars, pathVars, dscVars, callVars>>

NextTimelock == CallLockHeightTryFrom \/ CallLockTimestampTryFrom

-----------------------------------------------------------------------------
(* Taproot script trees: derive/src/taptree.rs *)

\* Largest number of leaves a builder is given, and largest leaf depth tried
MaxLeaves == 6
MaxDepth == 3
\* push_leaf calls tried on an already finalized builder
MaxRejected == 1
\* next() calls tried on an exhausted factory
MaxNone == 2

\* The scripts of the leaves given to a builder: the two in turn
LeafScripts == << [version |-> "c0", code |-> "A"], [version |-> "c2", code |-> "B"] >>

InternalKeys == { "P" }

LeafInfo(d, s) == [depth |-> d, script |-> s]

\* commit_verify::merkle::MerkleBuoy<u7>: the buoy is the chain of nested
\* buoys, outermost first; a buoy without a stack is a chain of one.
MerkleBuoy_default == << 0 >>

\* MerkleBuoy::level: the level of the innermost buoy
level(buoy) == Last(buoy)

\* MerkleBuoy::push: the new chain and whether the buoy has surfaced
RECURSIVE MerkleBuoy_push(_, _)
MerkleBuoy_push(buoy, depth) ==
    IF depth = 0
    THEN [buoy |-> buoy, surfaced |-> FALSE]
    ELSE IF Len(buoy) = 1
         THEN IF depth = buoy[1]
              THEN [buoy |-> << buoy[1] - 1 >>, surfaced |-> TRUE]
              ELSE [buoy |-> << buoy[1], depth >>, surfaced |-> FALSE]
         ELSE LET inner == MerkleBuoy_push(Tail(buoy), depth)
              IN  IF inner.surfaced
                  THEN MerkleBuoy_push(<< buoy[1] >>, level(inner.buoy))
                  ELSE [buoy |-> << buoy[1] >> \o inner.buoy, surfaced |-> FALSE]

TapTreeBuilder_new == [leaves |-> <<>>, buoy |-> MerkleBuoy_default, finalized |-> FALSE]

is_finalized(b) == b.finalized

NoPush == [kind |-> "none", val |-> FALSE]

FinalizedTree == [kind |-> "Err", val |-> FALSE]

\* push_leaf testing the buoy's level before the leaf is pushed onto it
push_leaf_stale_level(b, leaf) ==
    IF b.finalized
    THEN [builder |-> b, res |-> FinalizedTree]
    ELSE LET buoy2 == MerkleBuoy_push(b.buoy, leaf.depth).buoy
             fin   == IF level(b.buoy) = 0 THEN TRUE ELSE b.finalized
         IN  [builder |-> [leaves |-> Append(b.leaves, leaf), buoy |-> buoy2,
                           finalized |-> fin],
              res |-> [kind |-> "Ok", val |-> fin]]

\* push_leaf storing the leaf before it tests the finalized flag
push_leaf_store_first(b, leaf) ==
    IF b.finalized
    THEN [builder |-> [b EXCEPT !.leaves = Append(b.leaves, leaf)], res |-> FinalizedTree]
    ELSE LET buoy2 == MerkleBuoy_push(b.buoy, leaf.depth).buoy
             fin   == IF level(buoy2) = 0 THEN TRUE ELSE b.finalized
         IN  [builder |-> [leaves |-> Append(b.leaves, leaf), buoy |-> buoy2,
                           finalized |-> fin],
              res |-> [kind |-> "Ok", val |-> fin]]

\* TapTreeBuilder::push_leaf: the builder after the call and the call's result
push_leaf(b, leaf) ==
    IF b.finalized
    THEN [builder |-> b, res |-> FinalizedTree]
    ELSE LET buoy2 == MerkleBuoy_push(b.buoy, leaf.depth).buoy
             fin   == IF level(buoy2) = 0 THEN TRUE ELSE b.finalized
         IN  [builder |-> [leaves |-> Append(b.leaves, leaf), buoy |-> buoy2,
                           finalized |-> fin],
              res |-> [kind |-> "Ok", val |-> fin]]

NoTree == [kind |-> "none", err |-> "", level |-> 0, tree |-> <<>>]

OkTree(leaves) == [kind |-> "Ok", err |-> "", level |-> 0, tree |-> leaves]

UnfinalizedTree(lvl) == [kind |-> "Err", err |-> "UnfinalizedTree", level |-> lvl, tree |-> <<>>]

\* InvalidTree::MountainRange, converted from FinalizedTree
MountainRange == [kind |-> "Err", err |-> "MountainRange", level |-> 0, tree |-> <<>>]

\* TapTreeBuilder::finish
finish(b) ==
    IF ~b.finalized
    THEN UnfinalizedTree(level(b.buoy))
    ELSE OkTree(b.leaves)

\* TapTree::from_leaves: the loop over the leaves from position i on
RECURSIVE from_leaves_loop(_, _, _)
from_leaves_loop(b, leaves, i) ==
    IF i > Len(leaves)
    THEN finish(b)
    ELSE LET r == push_leaf(b, leaves[i])
         IN  IF r.res.kind = "Err"
             THEN MountainRange
             ELSE from_leaves_loop(r.builder, leaves, i + 1)

\* from_leaves with the first leaf taken off the iterator before the loop
from_leaves_skip_first(leaves) == from_leaves_loop(TapTreeBuilder_new, leaves, 2)

from_leaves(leaves) == from_leaves_loop(TapTreeBuilder_new, leaves, 1)

TapLeafHash(script) == [tag |-> "TapLeaf", of |-> script]

NoRoot == [kind |-> "none", hash |-> [tag |-> "", of |-> ""]]

RootPanic == [kind |-> "panic", hash |-> [tag |-> "", of |-> ""]]

\* TapTree::merkle_root: todo!() for anything but a one-leaf tree
merkle_root(tree) ==
    IF Len(tree) = 1
    THEN [kind |-> "hash", hash |-> TapLeafHash(tree[1].script)]
    ELSE RootPanic

\* InternalPk::to_output_pk(Some(merkle_root)): the tweaked key and its parity
to_output_pk(internal_pk, merkle) ==
    [output_pk |-> << "tweak", internal_pk, merkle >>, parity |-> << "parity", internal_pk, merkle >>]

NoFactory == [kind |-> "none"]

FactoryPanic == [kind |-> "panic"]

\* ControlBlockFactory::with
ControlBlockFactory_with(internal_pk, tap_tree) ==
    LET r == merkle_root(tap_tree)
    IN  IF r.kind = "panic"
        THEN FactoryPanic
        ELSE [kind |-> "ok",
              internal_pk |-> internal_pk,
              output_pk |-> to_output_pk(internal_pk, r.hash).output_pk,
              parity |-> to_output_pk(internal_pk, r.hash).parity,
              merkle_root |-> r.hash,
              merkle_path |-> <<>>,
              remaining_leaves |-> tap_tree]

\* ControlBlockFactory::next: the factory after the call and the item returned
ControlBlockFactory_next(f) ==
    IF f.remaining_leaves = <<>>
    THEN [factory |-> f, item |-> [kind |-> "None"]]
    ELSE LET leaf == Last(f.remaining_leaves)
         IN  [factory |-> [f EXCEPT !.remaining_leaves = Front(f.remaining_leaves)],
              item |-> [kind |-> "Some",
                        control_block |-> [leaf_version |-> leaf.script.version,
                                           internal_pk |-> f.internal_pk,
                                           parity |-> f.parity,
                                           merkle_path |-> f.merkle_path],
                        leaf_script |-> leaf.script]]

TapIdle ==
    /\ fed = <<>>
    /\ builder = TapTreeBuilder_new
    /\ pushRes = NoPush
    /\ finishRes = NoTree
    /\ flRes = NoTree
    /\ root = NoRoot
    /\ factory = NoFactory
    /\ emitted = <<>>

PushLeaf ==
    /\ dom = "taptree"
    /\ finishRes.kind = "none"
    /\ flRes.kind = "none"
    /\ IF builder.finalized
       THEN Len(fed) - Len(builder.leaves) < MaxRejected
       ELSE Len(builder.leaves) < MaxLeaves
    /\ \E d \in 0 .. MaxDepth :
          LET leaf == LeafInfo(d, LeafScripts[(Len(fed) % 2) + 1])
              r    == push_leaf(builder, leaf)
          IN  /\ builder' = r.builder
              /\ pushRes' = r.res
              /\ fed' = Append(fed, leaf)
    /\ UNCHANGED <<dom, finishRes, flRes, root, factory, emitted, ltVars, pathVars, dscVars, callVars>>

Finish ==
    /\ dom = "taptree"
    /\ finishRes.kind = "none"
    /\ finishRes' = finish(builder)
    /\ UNCHANGED <<dom, fed, builder, pushRes, flRes, root, factory, emitted,
                   ltVars, pathVars, dscVars, callVars>>

FromLeaves ==
    /\ dom = "taptree"
    /\ flRes.kind = "none"
    /\ flRes' = from_leaves(fed)
    /\ UNCHANGED <<dom, fed, builder, pushRes, finishRes, root, factory, emitted,
                   ltVars, pathVars, dscVars, callVars>>

MerkleRoot ==
    /\ dom = "taptree"
    /\ finishRes.kind = "Ok"
    /\ root.kind = "none"
    /\ root' = merkle_root(finishRes.tree)
    /\ UNCHANGED <<dom, fed, builder, pushRes, finishRes, flRes, factory, emitted,
                   ltVars, pathVars, dscVars, callVars>>

FactoryWith ==
    /\ dom = "taptree"
    /\ finishRes.kind = "Ok"
    /\ factory.kind = "none"
    /\ \E pk \in InternalKeys : factory' = ControlBlockFactory_with(pk, finishRes.tree)
    /\ UNCHANGED <<dom, fed, builder, pushRes, finishRes, flRes, root, emitted,
                   ltVars, pathVars, dscVars, callVars>>

FactoryNext ==
    /\ dom = "taptree"
    /\ factory.kind = "ok"
    /\ Len(emitted) < Len(finishRes.tree) + MaxNone
    /\ LET r == ControlBlockFactory_next(factory)
       IN  /\ factory' = r.factory
           /\ emitted' = Append(emitted, r.item)
    /\ UNCHANGED <<dom, fed, builder, pushRes, finishRes, flRes, root,
                   ltVars, pathVars, dscVars, callVars>>

NextTap == PushLeaf \/ Finish \/ FromLeaves \/ MerkleRoot \/ FactoryWith \/ FactoryNext

-----------------------------------------------------------------------------
(* Derivation paths: derive/src/path.rs *)

\* Longest path tried, and half-width of the windows of index values tried
\* around the u8 and u16 limits
MaxPathLen == 3
IdxSpan == 1

U8Max == 255
U16Max == 65535
\* Bit 31 of a u32 child number. Child numbers are written as the 32-bit
\* two's-complement integer with the same bits, so that adding bit 31
\* gives a negative number that no u8 or u16 range check accepts.
HARDENED_INDEX_BOUNDARY == (-2147483647) - 1

PathIdxValues ==
    {0} \cup ((U8Max + 1 - IdxSpan) .. (U8Max + 1 + IdxSpan))
        \cup ((U16Max + 1 - IdxSpan) .. (U16Max + 1 + IdxSpan))

\* DerivationIndex: a normal or a hardened index, stored below the boundary
DerivationIndex == [hardened : BOOLEAN, index : PathIdxValues]

\* Idx::is_hardened
is_hardened(i) == i.hardened

\* Idx::child_number: the u32 child number of BIP-32
child_number(i) == IF i.hardened THEN i.index + HARDENED_INDEX_BOUNDARY ELSE i.index

NoTerminal == [kind |-> "none", keychain |-> 0, index |-> 0]

TerminalNone == [kind |-> "None", keychain |-> 0, index |-> 0]

\* Some(Terminal::new(keychain, index))
TerminalSome(keychain, index) == [kind |-> "Some", keychain |-> keychain, index |-> index]

\* DerivationPath::terminal; `as u16` keeps the low 16 bits of the child number
terminal(p) ==
    IF Len(p) = 0 THEN TerminalNone
    ELSE LET index == p[Len(p)]
         IN  IF is_hardened(index) THEN TerminalNone
             ELSE LET index16 == child_number(index) % (U16Max + 1)
                  IN  IF Len(p) < 2 THEN TerminalNone
                      ELSE LET keychain == p[Len(p) - 1]
                           IN  IF is_hardened(keychain) THEN TerminalNone
                               ELSE IF child_number(keychain) \notin 0 .. U8Max THEN TerminalNone
                               ELSE TerminalSome(child_number(keychain), index16)

PathIdle == path = <<>> /\ term = NoTerminal

CallTerminal ==
    /\ dom = "path"
    /\ term.kind = "none"
    /\ term' = terminal(path)
    /\ UNCHANGED <<dom, path, ltVars, tapVars, dscVars, callVars>>

NextPath == CallTerminal

-----------------------------------------------------------------------------
(* Descriptor strings: descriptors/src/compiler/compile.rs *)
(* A string is the sequence of its characters.                             *)

T_pkh == << "p", "k", "h" >>
T_wpkh == << "w", "p", "k", "h" >>
T_sh == << "s", "h" >>
T_wsh == << "w", "s", "h" >>
T_tr == << "t", "r" >>
T_multi == << "m", "u", "l", "t", "i" >>
T_sortedmulti == << "s", "o", "r", "t", "e", "d" >> \o T_multi
T_multi_a == T_multi \o << "_", "a" >>
T_sortedmulti_a == T_sortedmulti \o << "_", "a" >>

\* The key type K of the parsers: its from_str accepts exactly these texts
\* and its Display writes them back
Keys == { << "K", "E", "Y" >>, << "K", "E", "Z" >> }

DigitChars == << "0", "1", "2", "3", "4", "5", "6", "7", "8", "9" >>

IsDigit(c) == \E i \in 1 .. 10 : DigitChars[i] = c

DigitVal(c) == (CHOOSE i \in 1 .. 10 : DigitChars[i] = c) - 1

\* Display of an unsigned integer: its decimal digits
RECURSIVE ToDec(_)
ToDec(n) == IF n < 10 THEN << DigitChars[n + 1] >>
            ELSE Append(ToDec(n \div 10), DigitChars[(n % 10) + 1])

\* str::starts_with
starts_with(s, prefix) ==
    Len(s) >= Len(prefix) /\ SubSeq(s, 1, Len(prefix)) = prefix

\* str::strip_prefix
strip_prefix(s, prefix) ==
    IF starts_with(s, prefix)
    THEN [some |-> TRUE, rest |-> SubSeq(s, Len(prefix) + 1, Len(s))]
    ELSE [some |-> FALSE, rest |-> <<>>]

\* str::trim_start
RECURSIVE trim_start(_)
trim_start(s) == IF s # <<>> /\ Head(s) = " " THEN trim_start(Tail(s)) ELSE s

RECURSIVE trim_end(_)
trim_end(s) == IF s # <<>> /\ Last(s) = " " THEN trim_end(Front(s)) ELSE s

\* Position of the first occurrence of character c in s, 0 when there is none
FirstIndex(s, c) ==
    IF \E i \in 1 .. Len(s) : s[i] = c
    THEN CHOOSE i \in 1 .. Len(s) : s[i] = c /\ \A j \in 1 .. i - 1 : s[j] # c
    ELSE 0

\* Parsing of an unsigned integer type with the largest value max:
\* an optional `+`, then at least one decimal digit, no overflow
RECURSIVE ParseDigits(_, _, _, _)
ParseDigits(s, i, acc, max) ==
    IF i > Len(s) THEN [ok |-> TRUE, val |-> acc]
    ELSE IF ~IsDigit(s[i]) THEN [ok |-> FALSE, val |-> 0]
    ELSE LET v == acc * 10 + DigitVal(s[i])
         IN  IF v > max THEN [ok |-> FALSE, val |-> 0]
             ELSE ParseDigits(s, i + 1, v, max)

ParseUInt(s, max) ==
    LET t == IF s # <<>> /\ Head(s) = "+" THEN Tail(s) ELSE s
    IN  IF t = <<>> THEN [ok |-> FALSE, val |-> 0] ELSE ParseDigits(t, 1, 0, max)

\* Largest value of amplify's u4, the type of the threshold
U4Max == 15

\* K::from_str
Key_from_str(s) == IF s \in Keys THEN [ok |-> TRUE, val |-> s] ELSE [ok |-> FALSE, val |-> <<>>]

\* The nesting depth after each character of s[lo .. hi], d0 being the depth
\* before s[lo]
RECURSIVE NestDepths(_, _, _, _)
NestDepths(s, lo, hi, d0) ==
    IF lo > hi THEN <<>>
    ELSE IF lo = hi
         THEN << d0 + (IF s[lo] \in { "(", "{" } THEN 1
                       ELSE IF s[lo] \in { ")", "}" } THEN -1 ELSE 0) >>
    ELSE LET mid  == (lo + hi) \div 2
             left == NestDepths(s, lo, mid, d0)
         IN  left \o NestDepths(s, mid + 1, hi, Last(left))

\* The positions in lo .. hi of the commas at depth 0, in increasing order
RECURSIVE TopCommas(_, _, _, _)
TopCommas(s, dep, lo, hi) ==
    IF lo > hi THEN <<>>
    ELSE IF lo = hi THEN (IF s[lo] = "," /\ dep[lo] = 0 THEN << lo >> ELSE <<>>)
    ELSE LET mid == (lo + hi) \div 2
         IN  TopCommas(s, dep, lo, mid) \o TopCommas(s, dep, mid + 1, hi)

\* The arguments of a call: the text between its parentheses split at the
\* commas that are inside no nested parentheses or braces
SplitAt(s, dep, cuts) ==
    LET bounds == << 0 >> \o cuts \o << Len(s) + 1 >>
    IN  [ok    |-> (\A i \in 1 .. Len(s) : dep[i] >= 0) /\ dep[Len(s)] = 0,
         parts |-> [j \in 1 .. Len(cuts) + 1 |-> SubSeq(s, bounds[j] + 1, bounds[j + 1] - 1)]]

SplitDepths(s, dep) == SplitAt(s, dep, TopCommas(s, dep, 1, Len(s)))

SplitTop(s) == IF s = <<>> THEN [ok |-> TRUE, parts |-> <<>>]
               ELSE SplitDepths(s, NestDepths(s, 1, Len(s), 0))

AstErr == [kind |-> "Err"]

\* ScriptExpr::from_str: name( arg, ... ) with balanced parentheses. An
\* argument holding a call is DescrAst::Script, one opening a brace is
\* DescrAst::Tree, a decimal integer is DescrAst::Lit, anything else must
\* parse as a key and is DescrAst::Key.
RECURSIVE ScriptExpr_from_str(_)
ScriptExpr_from_str(s) ==
    LET t == trim_end(trim_start(s))
        p == FirstIndex(t, "(")
    IN  IF p <= 1 \/ Last(t) # ")" THEN AstErr
        ELSE LET name == trim_end(SubSeq(t, 1, p - 1))
                 sp   == SplitTop(SubSeq(t, p + 1, Len(t) - 1))
                 arg(a) ==
                     LET u == trim_end(trim_start(a))
                     IN  IF u # <<>> /\ u[1] = "{" THEN [kind |-> "Tree", text |-> u]
                         ELSE IF FirstIndex(u, "(") > 0
                         THEN LET e == ScriptExpr_from_str(u)
                              IN  IF e.kind = "Err" THEN AstErr
                                  ELSE [kind |-> "Script", expr |-> e]
                         ELSE IF u # <<>> /\ \A i \in 1 .. Len(u) : IsDigit(u[i])
                              THEN [kind |-> "Lit", text |-> u]
                         ELSE IF Key_from_str(u).ok
                              THEN [kind |-> "Key", key |-> Key_from_str(u).val, text |-> u]
                         ELSE AstErr
             IN  IF ~sp.ok THEN AstErr
                 ELSE LET children == [i \in 1 .. Len(sp.parts) |-> arg(sp.parts[i])]
                      IN  IF \E i \in 1 .. Len(children) : children[i].kind = "Err"
                          THEN AstErr
                          ELSE [kind |-> "Ok", name |-> name, children |-> children]

\* DescrExpr::check_expr
check_expr(self, expr) ==
    \/ self \in { "Lit", "VariadicLit" } /\ expr.kind = "Lit"
    \/ self \in { "Key", "VariadicKey" } /\ expr.kind = "Key"
    \/ self = "Script" /\ expr.kind = "Script"
    \/ self = "Tree" /\ expr.kind = "Tree"

\* check_forms. zip takes the next pattern element before it asks for the
\* next argument, so a pattern one element longer than the argument list
\* is used up by the zip.
check_forms(ast, ident, form) ==
    LET children == ast.children
        nf    == Len(form)
        nc    == Len(children)
        m     == Min(nf, nc)
        taken == IF nc < nf THEN m + 1 ELSE m
        iter2 == SubSeq(children, m + 1, nc)
        none  == [some |-> FALSE, children |-> <<>>]
    IN  IF ast.name # ident THEN none
        ELSE IF \E i \in 1 .. m : ~check_expr(form[i], children[i]) THEN none
        ELSE IF nf - taken > 0 THEN none
        ELSE IF nf > 0 /\ form[nf] = "VariadicKey"
             THEN IF \E i \in 1 .. Len(iter2) : ~check_expr("Key", iter2[i]) THEN none
                  ELSE [some |-> TRUE, children |-> children]
        ELSE IF nf > 0 /\ form[nf] = "VariadicLit"
             THEN IF \E i \in 1 .. Len(iter2) : ~check_expr("Lit", iter2[i]) THEN none
                  ELSE [some |-> TRUE, children |-> children]
        ELSE IF Len(iter2) > 0 THEN none
        ELSE [some |-> TRUE, children |-> children]

\* A descriptor value: the StdDescr variant and its fields. key is the single
\* key of pkh / wpkh / sh(wpkh) / tr and the internal key of the tr multisigs.
Descr(variant, key, threshold, keys) ==
    [variant |-> variant, key |-> key, threshold |-> threshold, keys |-> keys]

NoDescr == Descr("none", <<>>, 0, <<>>)

NoParse == [kind |-> "none", val |-> NoDescr, err |-> ""]

DOk(d) == [kind |-> "Ok", val |-> d, err |-> ""]

\* Err(DescrParseError::...)
DErr(e) == [kind |-> "Err", val |-> NoDescr, err |-> e]

\* unreachable!() was reached
DPanic == [kind |-> "Panic", val |-> NoDescr, err |-> "unreachable"]

\* ConfinedVec<K, 1, 16>
MultiKeysMax == 16

\* ConfinedVec<K, 1, 999>
TrKeysMax == 999

Pkh_from_str(s) ==
    LET ast == ScriptExpr_from_str(s)
    IN  IF ast.kind = "Err" THEN DErr("InvalidScriptExpr")
        ELSE LET form == check_forms(ast, T_pkh, << "Key" >>)
             IN  IF ~form.some THEN DErr("InvalidArgs")
                 ELSE IF form.children = <<>> \/ Last(form.children).kind # "Key" THEN DPanic
                 ELSE DOk(Descr("Pkh", Last(form.children).key, 0, <<>>))

Wpkh_from_str(s) ==
    LET ast == ScriptExpr_from_str(s)
    IN  IF ast.kind = "Err" THEN DErr("InvalidScriptExpr")
        ELSE LET form == check_forms(ast, T_wpkh, << "Key" >>)
             IN  IF ~form.some THEN DErr("InvalidArgs")
                 ELSE IF form.children = <<>> \/ Last(form.children).kind # "Key" THEN DPanic
                 ELSE DOk(Descr("Wpkh", Last(form.children).key, 0, <<>>))

ShWpkh_from_str(s) ==
    LET ast == ScriptExpr_from_str(s)
    IN  IF ast.kind = "Err" THEN DErr("InvalidScriptExpr")
        ELSE LET form == check_forms(ast, T_sh, << "Script" >>)
             IN  IF ~form.some THEN DErr("InvalidArgs")
                 ELSE IF form.children = <<>> \/ Last(form.children).kind # "Script" THEN DPanic
                 ELSE LET inner == Last(form.children).expr
                          form2 == check_forms(inner, T_wpkh, << "Key" >>)
                      IN  IF ~form2.some THEN DErr("InvalidArgs")
                          ELSE IF form2.children = <<>> \/ Last(form2.children).kind # "Key"
                               THEN DPanic
                          ELSE DOk(Descr("ShWpkh", Last(form2.children).key, 0, <<>>))

\* The last steps of parse_multi_form and parse_tr_form: the threshold
\* literal parsed by u4::from_str or u16::from_str (maxThreshold is the
\* type's largest value), then the keys collected into the confined vector
multi_args(form, maxThreshold, maxKeys, internal_key) ==
    IF form = <<>> \/ Head(form).kind # "Lit" THEN DPanic
    ELSE LET threshold == ParseUInt(Head(form).text, maxThreshold)
             rest      == Tail(form)
         IN  IF ~threshold.ok THEN DErr("ParseInt")
             ELSE IF \E i \in 1 .. Len(rest) : rest[i].kind # "Key" THEN DPanic
             ELSE IF Len(rest) < 1 \/ Len(rest) > maxKeys THEN DErr("Confinement")
             ELSE DOk(Descr("form", internal_key, threshold.val,
                            [i \in 1 .. Len(rest) |-> rest[i].key]))

None == [some |-> FALSE, val |-> <<>>]

Some(v) == [some |-> TRUE, val |-> v]

parse_multi_form(s, outer, medium, inner) ==
    LET ast == ScriptExpr_from_str(s)
    IN  IF ast.kind = "Err" THEN DErr("InvalidScriptExpr")
        ELSE LET form1 == check_forms(ast, outer, << "Script" >>)
             IN  IF ~form1.some THEN DErr("InvalidArgs")
                 ELSE IF form1.children = <<>> \/ Last(form1.children).kind # "Script" THEN DPanic
                 ELSE LET script1 == Last(form1.children).expr
                          form2 == IF medium.some
                                   THEN check_forms(script1, medium.val, << "Script" >>)
                                   ELSE form1
                      IN  IF ~form2.some THEN DErr("InvalidArgs")
                          ELSE IF form2.children = <<>> \/ Last(form2.children).kind # "Script"
                               THEN DPanic
                          ELSE LET script == Last(form2.children).expr
                                   form == check_forms(script, inner, << "Lit", "VariadicKey" >>)
                               IN  IF ~form.some THEN DErr("InvalidArgs")
                                   ELSE multi_args(form.children, U4Max, MultiKeysMax, <<>>)

parse_tr_form(s, inner) ==
    LET ast == ScriptExpr_from_str(s)
    IN  IF ast.kind = "Err" THEN DErr("InvalidScriptExpr")
        ELSE LET form1 == check_forms(ast, T_tr, << "Key", "Script" >>)
             IN  IF ~form1.some THEN DErr("InvalidArgs")
                 ELSE IF form1.children = <<>> \/ Last(form1.children).kind # "Script" THEN DPanic
                 ELSE IF Front(form1.children) = <<>>
                         \/ Last(Front(form1.children)).kind # "Key" THEN DPanic
                 ELSE LET script == Last(form1.children).expr
                          internal_key == Last(Front(form1.children)).key
                          form == check_forms(script, inner, << "Lit", "VariadicKey" >>)
                      IN  IF ~form.some THEN DErr("InvalidArgs")
                          ELSE multi_args(form.children, U16Max, TrKeysMax, internal_key)

\* Ok(X { threshold, keys }) of the multisig from_str implementations
as_variant(r, variant) ==
    IF r.kind = "Ok" THEN DOk([r.val EXCEPT !.variant = variant]) ELSE r

ShMulti_from_str(s) == as_variant(parse_multi_form(s, T_sh, None, T_multi), "ShMulti")

ShSortedMulti_from_str(s) ==
    as_variant(parse_multi_form(s, T_sh, None, T_sortedmulti), "ShSortedMulti")

WshMulti_from_str(s) == as_variant(parse_multi_form(s, T_wsh, None, T_multi), "WshMulti")

WshSortedMulti_from_str(s) ==
    as_variant(parse_multi_form(s, T_wsh, None, T_sortedmulti), "WshSortedMulti")

ShWshMulti_from_str(s) ==
    as_variant(parse_multi_form(s, T_sh, Some(T_wsh), T_multi), "ShWshMulti")

ShWshSortedMulti_from_str(s) ==
    as_variant(parse_multi_form(s, T_sh, Some(T_wsh), T_sortedmulti), "ShWshSortedMulti")

ShScript_from_str(s) == DErr("NotSupported")

WshScript_from_str(s) == DErr("NotSupported")

ShWshScript_from_str(s) == DErr("NotSupported")

TrKey_from_str(s) ==
    LET ast == ScriptExpr_from_str(s)
    IN  IF ast.kind = "Err" THEN DErr("InvalidScriptExpr")
        ELSE LET form == check_forms(ast, T_tr, << "Key" >>)
             IN  IF ~form.some THEN DErr("InvalidArgs")
                 ELSE IF form.children = <<>> \/ Last(form.children).kind # "Key" THEN DPanic
                 ELSE DOk(Descr("TrKey", Last(form.children).key, 0, <<>>))

TrMulti_from_str(s) == as_variant(parse_tr_form(s, T_multi_a), "TrMulti")

TrSortedMulti_from_str(s) == as_variant(parse_tr_form(s, T_sortedmulti_a), "TrSortedMulti")

\* The two pops are in the reverse order of the form, so a text that
\* passes check_forms reaches unreachable!()
TrScript_from_str(s) ==
    LET ast == ScriptExpr_from_str(s)
    IN  IF ast.kind = "Err" THEN DErr("InvalidScriptExpr")
        ELSE LET form == check_forms(ast, T_tr, << "Key", "Tree" >>)
             IN  IF ~form.some THEN DErr("InvalidArgs")
                 ELSE IF form.children = <<>> \/ Last(form.children).kind # "Key" THEN DPanic
                 ELSE IF Front(form.children) = <<>>
                         \/ Last(Front(form.children)).kind # "Tree" THEN DPanic
                 ELSE DErr("NotSupported")

trim_start_expr(s, expr) ==
    LET a == strip_prefix(trim_start(s), expr)
    IN  IF ~a.some THEN None
        ELSE LET b == strip_prefix(trim_start(a.rest), << "(" >>)
             IN  IF b.some THEN Some(b.rest) ELSE None

ShWsh_from_str(s) ==
    LET rest1 == trim_start_expr(s, T_sh)
    IN  IF ~rest1.some THEN DErr("NoRequiredScript")
        ELSE LET rest == trim_start_expr(rest1.val, T_wsh)
             IN  IF ~rest.some THEN DErr("NoRequiredScript")
                 ELSE IF starts_with(rest.val, T_multi) THEN ShWshMulti_from_str(s)
                 ELSE IF starts_with(rest.val, T_sortedmulti) THEN ShWshSortedMulti_from_str(s)
                 ELSE ShWshScript_from_str(s)

Sh_from_str(s) ==
    LET rest == trim_start_expr(s, T_sh)
    IN  IF ~rest.some THEN DErr("NoRequiredScript")
        ELSE IF starts_with(rest.val, T_wsh) THEN ShWsh_from_str(s)
        ELSE IF starts_with(rest.val, T_sortedmulti) THEN ShSortedMulti_from_str(s)
        ELSE IF starts_with(rest.val, T_multi) THEN ShMulti_from_str(s)
        ELSE ShScript_from_str(s)

Wsh_from_str(s) ==
    LET rest1 == trim_start_expr(s, T_wsh)
    IN  IF ~rest1.some THEN DErr("NoRequiredScript")
        ELSE LET rest == trim_start(rest1.val)
             IN  IF starts_with(rest, T_multi) THEN WshMulti_from_str(s)
                 ELSE IF starts_with(rest, T_sortedmulti) THEN WshSortedMulti_from_str(s)
                 ELSE WshScript_from_str(s)

\* Each attempt runs to its end before the next one starts: a panic in one
\* of them is the outcome of the call
Tr_from_str(s) ==
    IF TrKey_from_str(s).kind \in { "Ok", "Panic" } THEN TrKey_from_str(s)
    ELSE IF TrMulti_from_str(s).kind \in { "Ok", "Panic" } THEN TrMulti_from_str(s)
    ELSE IF TrSortedMulti_from_str(s).kind \in { "Ok", "Panic" } THEN TrSortedMulti_from_str(s)
    ELSE TrScript_from_str(s)

StdDescr_from_str(str) ==
    LET s == trim_start(str)
    IN  IF starts_with(s, T_pkh) THEN Pkh_from_str(s)
        ELSE IF starts_with(s, T_wpkh) THEN Wpkh_from_str(s)
        ELSE IF starts_with(s, T_sh) THEN Sh_from_str(s)
        ELSE IF starts_with(s, T_wsh) THEN Wsh_from_str(s)
        ELSE IF starts_with(s, T_tr) THEN Tr_from_str(s)
        ELSE DErr("InvalidScriptExpr")

\* The keys of a multisig as Display writes them: each after a comma
RECURSIVE fmt_keys(_)
fmt_keys(keys) == IF keys = <<>> THEN <<>>
                  ELSE << "," >> \o Head(keys) \o fmt_keys(Tail(keys))

\* name(threshold,key,...)
fmt_multi(name, d) == name \o << "(" >> \o ToDec(d.threshold) \o fmt_keys(d.keys) \o << ")" >>

\* outer(inner)
wrap(outer, inner) == outer \o << "(" >> \o inner \o << ")" >>

Pkh_fmt(d) == wrap(T_pkh, d.key)

Wpkh_fmt(d) == wrap(T_wpkh, d.key)

ShWpkh_fmt(d) == wrap(T_sh, wrap(T_wpkh, d.key))

\* Display of the descriptor types, dispatched by StdDescr's Display
to_string(d) ==
    CASE d.variant = "Pkh" -> Pkh_fmt(d)
      [] d.variant = "Wpkh" -> Wpkh_fmt(d)
      [] d.variant = "ShWpkh" -> ShWpkh_fmt(d)
      [] d.variant = "ShMulti" -> wrap(T_sh, fmt_multi(T_multi, d))
      [] d.variant = "ShSortedMulti" -> wrap(T_sh, fmt_multi(T_sortedmulti, d))
      [] d.variant = "WshMulti" -> wrap(T_wsh, fmt_multi(T_multi, d))
      [] d.variant = "WshSortedMulti" -> wrap(T_wsh, fmt_multi(T_sortedmulti, d))
      [] d.variant = "ShWshMulti" -> wrap(T_sh, wrap(T_wsh, fmt_multi(T_multi, d)))
      [] d.variant = "ShWshSortedMulti" -> wrap(T_sh, wrap(T_wsh, fmt_multi(T_sortedmulti, d)))
      [] d.variant = "TrKey" -> wrap(T_tr, d.key)
      [] d.variant = "TrMulti" -> wrap(T_tr, d.key \o << "," >> \o fmt_multi(T_multi_a, d))
      [] d.variant = "TrSortedMulti" ->
             wrap(T_tr, d.key \o << "," >> \o fmt_multi(T_sortedmulti_a, d))
      [] OTHER -> <<>>

\* The from_str of the descriptor type itself
variant_from_str(variant, s) ==
    CASE variant = "Pkh" -> Pkh_from_str(s)
      [] variant = "Wpkh" -> Wpkh_from_str(s)
      [] variant = "ShWpkh" -> ShWpkh_from_str(s)
      [] variant = "ShMulti" -> ShMulti_from_str(s)
      [] variant = "ShSortedMulti" -> ShSortedMulti_from_str(s)
      [] variant = "WshMulti" -> WshMulti_from_str(s)
      [] variant = "WshSortedMulti" -> WshSortedMulti_from_str(s)
      [] variant = "ShWshMulti" -> ShWshMulti_from_str(s)
      [] variant = "ShWshSortedMulti" -> ShWshSortedMulti_from_str(s)
      [] variant = "TrKey" -> TrKey_from_str(s)
      [] variant = "TrMulti" -> TrMulti_from_str(s)
      [] variant = "TrSortedMulti" -> TrSortedMulti_from_str(s)
      [] variant = "TrTree" -> TrScript_from_str(s)
      [] OTHER -> DErr("InvalidScriptExpr")

\* Largest threshold and largest number of keys written in an input text
MaxThreshIn == 17
MaxKeysIn == 17

KeyVariants == { "Pkh", "Wpkh", "ShWpkh", "TrKey" }

MultiVariants == { "ShMulti", "ShSortedMulti", "WshMulti", "WshSortedMulti",
                   "ShWshMulti", "ShWshSortedMulti" }

TrMultiVariants == { "TrMulti", "TrSortedMulti" }

\* n keys, the two key texts in turn
KeyList(first, n) ==
    [i \in 1 .. n |-> IF i % 2 = 1 THEN first ELSE CHOOSE k \in Keys : k # first]

\* The descriptor expressions written as input: every form of the grammar
\* with every threshold and key count up to the bounds, those no descriptor
\* type can hold included
DescrInputs ==
    { Descr(v, k, 0, <<>>) : v \in KeyVariants, k \in Keys }
    \cup { Descr(v, <<>>, t, KeyList(k, n)) :
             v \in MultiVariants, k \in Keys, t \in 0 .. MaxThreshIn, n \in 0 .. MaxKeysIn }
    \cup { Descr(v, k, t, KeyList(k, n)) :
             v \in TrMultiVariants, k \in Keys, t \in 0 .. MaxThreshIn, n \in 0 .. MaxKeysIn }

\* Largest threshold and number of keys of the descriptors whose text is
\* rewritten into an expression that is no descriptor of the grammar
MaxRewritten == 2

\* The expressions that are rewritten, a tr with a script tree among them
RewrittenInputs ==
    { d \in DescrInputs : d.threshold <= MaxRewritten /\ Len(d.keys) <= MaxRewritten }
    \cup { Descr("TrTree", k, 0, <<>>) : k \in Keys }

\* {pk(KEY),pk(KEY)}
TreeText(k) ==
    LET pk == wrap(<< "p", "k" >>, k) IN << "{" >> \o pk \o << "," >> \o pk \o << "}" >>

\* The text of an expression: as Display writes it ("value"), with one more
\* key argument than the outermost call takes ("extra"), with a name no
\* parser knows ("unknown"); the tr with a script tree is tr(KEY,TREE)
Forms == { "value", "extra", "unknown" }

Written(d, form) ==
    IF d.variant = "TrTree" THEN wrap(T_tr, d.key \o << "," >> \o TreeText(d.key))
    ELSE IF form = "extra"
         THEN Front(to_string(d)) \o << ",", "K", "E", "Y", ")" >>
    ELSE IF form = "unknown" THEN << "x" >> \o to_string(d)
    ELSE to_string(d)

\* StdDescr::from_str(text)
FromStrStd ==
    /\ dom = "descr"
    /\ r_std.kind = "none"
    /\ r_std' = StdDescr_from_str(text)
    /\ UNCHANGED << dom, src, text, r_var >>
    /\ UNCHANGED << ltVars, tapVars, pathVars, callVars >>

\* X::from_str(text) for the descriptor type X the text was written for
FromStrVariant ==
    /\ dom = "descr"
    /\ r_var.kind = "none"
    /\ r_var' = variant_from_str(src.variant, text)
    /\ UNCHANGED << dom, src, text, r_std >>
    /\ UNCHANGED << ltVars, tapVars, pathVars, callVars >>

NextDescr == FromStrStd \/ FromStrVariant

-----------------------------------------------------------------------------
(* Single-key descriptors: descriptors/src/singlesig.rs *)

\* Largest number of key signatures handed to legacy_witness
MaxKeysigs == 2

Fingerprints == { "f1", "f2" }

\* The origin of a descriptor's xpub: master fingerprint and derivation
XpubOrigins == { [master_fp |-> f, derivation |-> d] : f \in Fingerprints, d \in { <<>>, << 84 >> } }

\* The origin of a signing key: master fingerprint and full derivation
KeyOrigins ==
    { [master_fp |-> f, derivation |-> d] :
        f \in Fingerprints, d \in { << 0, 1 >>, << 84, 0, 1 >>, << 44, 0, 1 >> } }

\* XkeyOrigin::is_subset_of(&KeyOrigin): same master key, and the key's
\* derivation starts with the xpub's
is_subset_of(our_origin, origin) ==
    /\ our_origin.master_fp = origin.master_fp
    /\ Len(our_origin.derivation) <= Len(origin.derivation)
    /\ SubSeq(origin.derivation, 1, Len(our_origin.derivation)) = our_origin.derivation

\* The IndexMap<&KeyOrigin, LegacyKeySig> in its iteration order: the i-th
\* entry holds the i-th signature and the i-th key
LegacyKeySig(i) == [sig |-> << "sig", i >>, key |-> << "key", i >>]

KeysigMaps ==
    UNION { { [i \in 1 .. n |-> [origin |-> o[i], keysig |-> LegacyKeySig(i)]] :
                o \in { f \in [1 .. n -> KeyOrigins] : \A i, j \in 1 .. n : f[i] = f[j] => i = j } } :
            n \in 0 .. MaxKeysigs }

\* keysigs.iter().find(|(origin, _)| our_origin.is_subset_of(origin)): the
\* position of the first entry found, 0 when there is none
find_keysig(our_origin, keysigs) ==
    IF \E i \in 1 .. Len(keysigs) : is_subset_of(our_origin, keysigs[i].origin)
    THEN CHOOSE i \in 1 .. Len(keysigs) :
             /\ is_subset_of(our_origin, keysigs[i].origin)
             /\ \A j \in 1 .. i - 1 : ~is_subset_of(our_origin, keysigs[j].origin)
    ELSE 0

WitnessNone == [kind |-> "None"]

\* Some((sig_script, witness)): sig_script is the sequence of its pushes,
\* witness is None or Some(stack)
WitnessSome(sig_script, witness) ==
    [kind |-> "Some", sig_script |-> sig_script, witness |-> witness]

Pkh_legacy_witness(our_origin, keysigs) ==
    LET i == find_keysig(our_origin, keysigs)
    IN  IF i = 0 THEN WitnessNone
        ELSE WitnessSome(<< [push |-> keysigs[i].keysig.sig], [push |-> keysigs[i].keysig.key] >>,
                         None)

Wpkh_legacy_witness(our_origin, keysigs) ==
    LET i == find_keysig(our_origin, keysigs)
    IN  IF i = 0 THEN WitnessNone
        ELSE WitnessSome(<<>>, Some(<< keysigs[i].keysig.sig, keysigs[i].keysig.key >>))

ShWpkh_legacy_witness(our_origin, keysigs) ==
    LET i == find_keysig(our_origin, keysigs)
    IN  IF i = 0 THEN WitnessNone
        ELSE WitnessSome(<<>>, Some(<< keysigs[i].keysig.sig, keysigs[i].keysig.key >>))

LegacyWitnessCalls ==
    { [fn |-> "legacy_witness", descr |-> v, our_origin |-> o, keysigs |-> m] :
        v \in { "Pkh", "Wpkh", "ShWpkh" }, o \in XpubOrigins, m \in KeysigMaps }

\* descriptor.legacy_witness(keysigs, None, None)
CallLegacyWitness ==
    /\ dom = "witness"
    /\ ret = NoRet
    /\ ret' = CASE call.descr = "Pkh" -> Pkh_legacy_witness(call.our_origin, call.keysigs)
                [] call.descr = "Wpkh" -> Wpkh_legacy_witness(call.our_origin, call.keysigs)
                [] call.descr = "ShWpkh" -> ShWpkh_legacy_witness(call.our_origin, call.keysigs)
    /\ UNCHANGED << dom, call, ltVars, tapVars, pathVars, dscVars >>

NextWitness == CallLegacyWitness

-----------------------------------------------------------------------------
(* Constructors of the timelock types: psbt/src/timelocks.rs *)

UpperChars == << "A", "B", "C", "D", "E", "F", "G", "H", "I", "J", "K", "L", "M",
                 "N", "O", "P", "Q", "R", "S", "T", "U", "V", "W", "X", "Y", "Z" >>

LowerChars == << "a", "b", "c", "d", "e", "f", "g", "h", "i", "j", "k", "l", "m",
                 "n", "o", "p", "q", "r", "s", "t", "u", "v", "w", "x", "y", "z" >>

\* str::to_lowercase
to_lowercase(s) ==
    [i \in 1 .. Len(s) |->
        IF \E j \in 1 .. 26 : UpperChars[j] = s[i]
        THEN LowerChars[CHOOSE j \in 1 .. 26 : UpperChars[j] = s[i]]
        ELSE s[i]]

\* str::trim_end_matches(')')
RECURSIVE trim_end_matches(_, _)
trim_end_matches(s, c) ==
    IF s # <<>> /\ Last(s) = c THEN trim_end_matches(Front(s), c) ELSE s

\* str::parse::<u32>: the texts of the model have at most nine digits, all
\* below the largest number the model represents
u32_from_str(s) == ParseUInt(s, 2147483647)

T_none == << "n", "o", "n", "e" >>
T_time == << "t", "i", "m", "e", "(" >>
T_height == << "h", "e", "i", "g", "h", "t", "(" >>

\* A timelock value, or the error or None returned in its place
Lock(kind, ty, val) == [kind |-> kind, ty |-> ty, val |-> val]

LockTimestamp_anytime == Lock("Ok", "LockTimestamp", 0)

LockHeight_anytime == Lock("Ok", "LockHeight", 0)

\* #[derive(Default)] on a u32 newtype
LockTimestamp_default == Lock("Ok", "LockTimestamp", 0)

LockHeight_default == Lock("Ok", "LockHeight", 0)

LockTimestamp_from_unix_timestamp(timestamp) ==
    IF timestamp < LOCKTIME_THRESHOLD THEN Lock("None", "LockTimestamp", timestamp)
    ELSE Lock("Some", "LockTimestamp", timestamp)

LockHeight_from_height(height) ==
    IF height < LOCKTIME_THRESHOLD THEN Lock("Some", "LockHeight", height)
    ELSE Lock("None", "LockHeight", height)

\* LockTime is the u32 it was made from
LockTimestamp_try_from_lock_time(lock_time) ==
    LockTimestamp_try_from_consensus_u32(lock_time)

LockHeight_try_from_lock_time(lock_time) == LockHeight_try_from_consensus_u32(lock_time)

LockTimestamp_from_str(str) ==
    LET s == to_lowercase(str)
    IN  IF s = << "0" >> \/ s = T_none THEN LockTimestamp_anytime
        ELSE IF starts_with(s, T_time) /\ Last(s) = ")"
             THEN LET no == u32_from_str(trim_end_matches(SubSeq(s, 6, Len(s)), ")"))
                  IN  IF ~no.ok THEN Lock("Err", "InvalidNumber", 0)
                      ELSE IF LockTimestamp_try_from(no.val).kind = "Ok"
                           THEN Lock("Ok", "LockTimestamp", LockTimestamp_try_from(no.val).val)
                      ELSE Lock("Err", "InvalidTimestamp", no.val)
        ELSE Lock("Err", "InvalidDescriptor", 0)

LockHeight_from_str(str) ==
    LET s == to_lowercase(str)
    IN  IF s = << "0" >> \/ s = T_none THEN LockHeight_anytime
        ELSE IF starts_with(s, T_height) /\ Last(s) = ")"
             THEN LET no == u32_from_str(trim_end_matches(SubSeq(s, 8, Len(s)), ")"))
                  IN  IF ~no.ok THEN Lock("Err", "InvalidNumber", 0)
                      ELSE IF LockHeight_try_from(no.val).kind = "Ok"
                           THEN Lock("Ok", "LockHeight", LockHeight_try_from(no.val).val)
                      ELSE Lock("Err", "InvalidHeight", no.val)
        ELSE Lock("Err", "InvalidDescriptor", 0)

\* Result<_, InvalidTimelock> of the try_from family as a timelock value
AsLock(r, ty) == IF r.kind = "Ok" THEN Lock("Ok", ty, r.val) ELSE Lock("Err", "InvalidTimelock", r.val)

LockTypes == { "LockTimestamp", "LockHeight" }

\* The texts given to from_str: the two zero forms, time(n) and height(n) in
\* both cases, and a text without its closing parenthesis
TimelockTexts ==
    { << "0" >>, T_none, << "N", "o", "n", "e" >>, << "t", "i", "m", "e", "(", "7" >> }
    \cup { T_time \o ToDec(n) \o << ")" >> : n \in TimelockInputs }
    \cup { << "T", "I", "M", "E", "(" >> \o ToDec(n) \o << ")" >> : n \in TimelockInputs }
    \cup { T_height \o ToDec(n) \o << ")" >> : n \in TimelockInputs }

TimelockCalls ==
    { [fn |-> f, ty |-> t] : f \in { "anytime", "default" }, t \in LockTypes }
    \cup { [fn |-> f, ty |-> t, value |-> n] :
             f \in { "from_number", "try_from", "try_from_consensus_u32", "try_from_lock_time" },
             t \in LockTypes, n \in TimelockInputs }
    \cup { [fn |-> "from_str", ty |-> t, s |-> x] : t \in LockTypes, x \in TimelockTexts }

\* anytime() and default()
CallLockAnytime ==
    /\ dom = "lock" /\ ret = NoRet
    /\ call.fn \in { "anytime", "default" }
    /\ ret' = CASE call.fn = "anytime" /\ call.ty = "LockTimestamp" -> LockTimestamp_anytime
                [] call.fn = "anytime" /\ call.ty = "LockHeight" -> LockHeight_anytime
                [] call.fn = "default" /\ call.ty = "LockTimestamp" -> LockTimestamp_default
                [] call.fn = "default" /\ call.ty = "LockHeight" -> LockHeight_default
    /\ UNCHANGED << dom, call, ltVars, tapVars, pathVars, dscVars >>

\* LockTimestamp::from_unix_timestamp(value) and LockHeight::from_height(value)
CallLockFromNumber ==
    /\ dom = "lock" /\ ret = NoRet
    /\ call.fn = "from_number"
    /\ ret' = IF call.ty = "LockTimestamp" THEN LockTimestamp_from_unix_timestamp(call.value)
              ELSE LockHeight_from_height(call.value)
    /\ UNCHANGED << dom, call, ltVars, tapVars, pathVars, dscVars >>

\* try_from(value), try_from_consensus_u32(value), try_from_lock_time(value)
CallLockTryFrom ==
    /\ dom = "lock" /\ ret = NoRet
    /\ call.fn \in { "try_from", "try_from_consensus_u32", "try_from_lock_time" }
    /\ ret' = CASE call.fn = "try_from" /\ call.ty = "LockTimestamp" ->
                       AsLock(LockTimestamp_try_from(call.value), call.ty)
                [] call.fn = "try_from" /\ call.ty = "LockHeight" ->
                       AsLock(LockHeight_try_from(call.value), call.ty)
                [] call.fn = "try_from_consensus_u32" /\ call.ty = "LockTimestamp" ->
                       AsLock(LockTimestamp_try_from_consensus_u32(call.value), call.ty)
                [] call.fn = "try_from_consensus_u32" /\ call.ty = "LockHeight" ->
                       AsLock(LockHeight_try_from_consensus_u32(call.value), call.ty)
                [] call.fn = "try_from_lock_time" /\ call.ty = "LockTimestamp" ->
                       AsLock(LockTimestamp_try_from_lock_time(call.value), call.ty)
                [] call.fn = "try_from_lock_time" /\ call.ty = "LockHeight" ->
                       AsLock(LockHeight_try_from_lock_time(call.value), call.ty)
    /\ UNCHANGED << dom, call, ltVars, tapVars, pathVars, dscVars >>

\* from_str(s)
CallLockFromStr ==
    /\ dom = "lock" /\ ret = NoRet
    /\ call.fn = "from_str"
    /\ ret' = IF call.ty = "LockTimestamp" THEN LockTimestamp_from_str(call.s)
              ELSE LockHeight_from_str(call.s)
    /\ UNCHANGED << dom, call, ltVars, tapVars, pathVars, dscVars >>

NextLock == CallLockAnytime \/ CallLockFromNumber \/ CallLockTryFrom \/ CallLockFromStr

-----------------------------------------------------------------------------
(* Signature hash types: psbt/src/sigtypes.rs *)

\* Inputs of from_consensus and from_standard are 0 .. SighashSpan
SighashSpan == 511

\* a & b and a | b on unsigned integers
RECURSIVE BitAnd(_, _)
BitAnd(a, b) ==
    IF a = 0 \/ b = 0 THEN 0
    ELSE 2 * BitAnd(a \div 2, b \div 2) + (IF a % 2 = 1 /\ b % 2 = 1 THEN 1 ELSE 0)

RECURSIVE BitOr(_, _)
BitOr(a, b) ==
    IF a = 0 THEN b
    ELSE IF b = 0 THEN a
    ELSE 2 * BitOr(a \div 2, b \div 2) + (IF a % 2 = 1 \/ b % 2 = 1 THEN 1 ELSE 0)

\* SighashFlag as u8
SighashFlag_u8(flag) ==
    CASE flag = "All" -> 1 [] flag = "None" -> 2 [] flag = "Single" -> 3

SighashType(flag, anyone_can_pay) == [flag |-> flag, anyone_can_pay |-> anyone_can_pay]

\* all(), none(), single(), all_anyone_can_pay(), none_anyone_can_pay(),
\* single_anyone_can_pay()
SighashTypes ==
    { SighashType(f, a) : f \in { "All", "None", "Single" }, a \in BOOLEAN }

NonStandardSighashType(n) == [kind |-> "Err", val |-> n]

\* from_consensus with the anyone-can-pay bit left out of the mask
from_consensus_mask_1f(n) ==
    LET mask == 31
        m == BitAnd(n, mask)
    IN  CASE m = 1 -> SighashType("All", FALSE)
          [] m = 2 -> SighashType("None", FALSE)
          [] m = 3 -> SighashType("Single", FALSE)
          [] m = 129 -> SighashType("All", TRUE)
          [] m = 130 -> SighashType("None", TRUE)
          [] m = 131 -> SighashType("Single", TRUE)
          [] OTHER -> IF BitAnd(m, 128) = 128 THEN SighashType("All", TRUE)
                      ELSE SighashType("All", FALSE)

from_consensus(n) ==
    LET mask == BitOr(31, 128)
        m == BitAnd(n, mask)
    IN  CASE m = 1 -> SighashType("All", FALSE)
          [] m = 2 -> SighashType("None", FALSE)
          [] m = 3 -> SighashType("Single", FALSE)
          [] m = 129 -> SighashType("All", TRUE)
          [] m = 130 -> SighashType("None", TRUE)
          [] m = 131 -> SighashType("Single", TRUE)
          [] OTHER -> IF BitAnd(m, 128) = 128 THEN SighashType("All", TRUE)
                      ELSE SighashType("All", FALSE)

from_standard(n) ==
    CASE n = 1 -> [kind |-> "Ok", val |-> SighashType("All", FALSE)]
      [] n = 2 -> [kind |-> "Ok", val |-> SighashType("None", FALSE)]
      [] n = 3 -> [kind |-> "Ok", val |-> SighashType("Single", FALSE)]
      [] n = 129 -> [kind |-> "Ok", val |-> SighashType("All", TRUE)]
      [] n = 130 -> [kind |-> "Ok", val |-> SighashType("None", TRUE)]
      [] n = 131 -> [kind |-> "Ok", val |-> SighashType("Single", TRUE)]
      [] OTHER -> NonStandardSighashType(n)

\* into_u8 shifting the anyone-can-pay bit by 6
into_u8_shift_6(self) ==
    LET flag == SighashFlag_u8(self.flag)
        mask == (IF self.anyone_can_pay THEN 1 ELSE 0) * 64
    IN  BitOr(flag, mask)

into_u8(self) ==
    LET flag == SighashFlag_u8(self.flag)
        mask == ((IF self.anyone_can_pay THEN 1 ELSE 0) * 128) % 256
    IN  BitOr(flag, mask)

into_u32(self) == into_u8(self)

SighashCalls ==
    { [fn |-> f, n |-> n] : f \in { "from_consensus", "from_standard" }, n \in 0 .. SighashSpan }
    \cup { [fn |-> f, s |-> x] : f \in { "into_u8", "into_u32" }, x \in SighashTypes }

CallFromConsensus ==
    /\ dom = "sighash" /\ ret = NoRet
    /\ call.fn = "from_consensus"
    /\ ret' = [kind |-> "SighashType", val |-> from_consensus(call.n)]
    /\ UNCHANGED << dom, call, ltVars, tapVars, pathVars, dscVars >>

CallFromStandard ==
    /\ dom = "sighash" /\ ret = NoRet
    /\ call.fn = "from_standard"
    /\ ret' = from_standard(call.n)
    /\ UNCHANGED << dom, call, ltVars, tapVars, pathVars, dscVars >>

CallIntoU8 ==
    /\ dom = "sighash" /\ ret = NoRet
    /\ call.fn \in { "into_u8", "into_u32" }
    /\ ret' = [kind |-> "number",
               val |-> IF call.fn = "into_u8" THEN into_u8(call.s) ELSE into_u32(call.s)]
    /\ UNCHANGED << dom, call, ltVars, tapVars, pathVars, dscVars >>

\* from_standard applied to the number into_u8 / into_u32 returned
CallFromStandardBack ==
    /\ dom = "sighash" /\ ret.kind = "number"
    /\ ret' = from_standard(ret.val)
    /\ UNCHANGED << dom, call, ltVars, tapVars, pathVars, dscVars >>

NextSighash == CallFromConsensus \/ CallFromStandard \/ CallIntoU8 \/ CallFromStandardBack

-----------------------------------------------------------------------------
(* PSBT versions: psbt/src/lib.rs *)

\* Version numbers given are 0 .. VerSpan, and for a usize the same numbers
\* plus a multiple hi * 2^32, hi in 0 .. MaxHi
VerSpan == 40
MaxHi == 1

PsbtUnsupportedVer(n) == [kind |-> "Err", val |-> n]

try_from_standard_u32(v) ==
    CASE v = 0 -> [kind |-> "Ok", val |-> "V0"]
      [] v = 2 -> [kind |-> "Ok", val |-> "V2"]
      [] OTHER -> PsbtUnsupportedVer(v)

to_standard_u32(self) == CASE self = "V0" -> 0 [] self = "V2" -> 2

\* A usize is held as its two 32-bit halves; `value as u32` keeps the low one
usize(hi, lo) == [hi |-> hi, lo |-> lo]

as_u32(value) == value.lo

PsbtVer_try_from(value) ==
    CASE value = usize(0, 0) -> [kind |-> "Ok", val |-> "V0"]
      [] value = usize(0, 2) -> [kind |-> "Ok", val |-> "V2"]
      [] OTHER -> PsbtUnsupportedVer(as_u32(value))

PsbtVerCalls ==
    { [fn |-> "try_from", value |-> usize(h, l)] : h \in 0 .. MaxHi, l \in 0 .. VerSpan }
    \cup { [fn |-> "try_from_standard_u32", v |-> n] : n \in 0 .. VerSpan }
    \cup { [fn |-> "to_standard_u32", self |-> x] : x \in { "V0", "V2" } }

CallPsbtVerTryFrom ==
    /\ dom = "psbtver" /\ ret = NoRet
    /\ call.fn = "try_from"
    /\ ret' = PsbtVer_try_from(call.value)
    /\ UNCHANGED << dom, call, ltVars, tapVars, pathVars, dscVars >>

CallTryFromStandardU32 ==
    /\ dom = "psbtver" /\ ret = NoRet
    /\ call.fn = "try_from_standard_u32"
    /\ ret' = try_from_standard_u32(call.v)
    /\ UNCHANGED << dom, call, ltVars, tapVars, pathVars, dscVars >>

CallToStandardU32 ==
    /\ dom = "psbtver" /\ ret = NoRet
    /\ call.fn = "to_standard_u32"
    /\ ret' = [kind |-> "number", val |-> to_standard_u32(call.self)]
    /\ UNCHANGED << dom, call, ltVars, tapVars, pathVars, dscVars >>

NextPsbtVer == CallPsbtVerTryFrom \/ CallTryFromStandardU32 \/ CallToStandardU32

-----------------------------------------------------------------------------
(* Tap tree values and their rendering: derive/src/taptree.rs *)

\* Leaf lists given to the constructors: up to MaxTreeLeaves leaves of depths
\* 0 .. MaxTreeDepth
MaxTreeLeaves == 4
MaxTreeDepth == 3

LeafList(ds) == [i \in 1 .. Len(ds) |-> LeafInfo(ds[i], LeafScripts[((i - 1) % 2) + 1])]

TreeLeafLists ==
    { LeafList(ds) : ds \in UNION { [1 .. n -> 0 .. MaxTreeDepth] : n \in 0 .. MaxTreeLeaves } }

\* #[derive(Default)] on TapTree(Vec<LeafInfo>)
TapTree_default == OkTree(<<>>)

with_single_leaf(leaf) == OkTree(<< LeafInfo(0, leaf) >>)

from_builder(b) == finish(b)

\* The builder after push_leaf of each of the leaves in turn; a rejected push
\* leaves it as it was
RECURSIVE pushed(_, _, _)
pushed(b, leaves, i) ==
    IF i > Len(leaves) THEN b ELSE pushed(push_leaf(b, leaves[i]).builder, leaves, i + 1)

\* The function given to map
Mapped(script) == [version |-> script.version, code |-> << "f", script.code >>]

map(tree) == [i \in 1 .. Len(tree) |-> LeafInfo(tree[i].depth, Mapped(tree[i].script))]

Rep(c, n) == [i \in 1 .. n |-> c]

DisplayPanic == [kind |-> "panic", text |-> <<>>]

\* impl Display for TapTree: the loop from leaf i on; debug tells whether the
\* build keeps its debug assertions
RECURSIVE fmt_loop(_, _, _, _, _, _)
fmt_loop(tree, i, buoy, depth, f, debug) ==
    IF i > Len(tree)
    THEN IF debug /\ level(buoy) # 0 THEN DisplayPanic ELSE [kind |-> "text", text |-> f]
    ELSE LET leaf == tree[i]
             opened == f \o Rep("{", leaf.depth - depth)
             buoy2 == MerkleBuoy_push(buoy, leaf.depth).buoy
             comma == IF depth = leaf.depth THEN opened \o << "," >> ELSE opened
             depth2 == leaf.depth
             closed == comma \o Rep("}", depth2 - level(buoy2))
         IN  IF debug /\ level(buoy2) = 0
             THEN DisplayPanic
             ELSE fmt_loop(tree, i + 1, buoy2, depth2, closed, debug)

TapTree_fmt(tree, debug) == fmt_loop(tree, 1, MerkleBuoy_default, 0, <<>>, debug)

TreeCalls ==
    { [fn |-> "default"] }
    \cup { [fn |-> "with_single_leaf", leaf |-> LeafScripts[i]] : i \in 1 .. 2 }
    \cup { [fn |-> f, leaves |-> l] : f \in { "from_leaves", "from_builder", "finish" },
                                      l \in TreeLeafLists }

TapTreeDefault ==
    /\ dom = "tree" /\ ret = NoRet
    /\ call.fn = "default"
    /\ ret' = TapTree_default
    /\ UNCHANGED << dom, call, ltVars, tapVars, pathVars, dscVars >>

WithSingleLeaf ==
    /\ dom = "tree" /\ ret = NoRet
    /\ call.fn = "with_single_leaf"
    /\ ret' = with_single_leaf(call.leaf)
    /\ UNCHANGED << dom, call, ltVars, tapVars, pathVars, dscVars >>

TreeFromLeaves ==
    /\ dom = "tree" /\ ret = NoRet
    /\ call.fn = "from_leaves"
    /\ ret' = from_leaves(call.leaves)
    /\ UNCHANGED << dom, call, ltVars, tapVars, pathVars, dscVars >>

\* finish / from_builder on the builder the leaves were pushed to
TreeFromBuilder ==
    /\ dom = "tree" /\ ret = NoRet
    /\ call.fn \in { "from_builder", "finish" }
    /\ ret' = IF call.fn = "finish"
              THEN finish(pushed(TapTreeBuilder_new, call.leaves, 1))
              ELSE from_builder(pushed(TapTreeBuilder_new, call.leaves, 1))
    /\ UNCHANGED << dom, call, ltVars, tapVars, pathVars, dscVars >>

\* from_leaves over the leaves of the tree obtained
Rebuild ==
    /\ dom = "tree" /\ ret.kind = "Ok"
    /\ ret' = [kind |-> "Rebuilt", of |-> ret.tree, res |-> from_leaves(ret.tree)]
    /\ UNCHANGED << dom, call, ltVars, tapVars, pathVars, dscVars >>

\* map over the tree obtained
TreeMap ==
    /\ dom = "tree" /\ ret.kind = "Ok"
    /\ ret' = [kind |-> "Mapped", of |-> ret.tree, res |-> OkTree(map(ret.tree))]
    /\ UNCHANGED << dom, call, ltVars, tapVars, pathVars, dscVars >>

\* to_string of the tree obtained
TreeDisplay ==
    /\ dom = "tree" /\ ret.kind = "Ok"
    /\ \E debug \in BOOLEAN :
          ret' = [kind |-> "Shown", of |-> ret.tree, res |-> TapTree_fmt(ret.tree, debug)]
    /\ UNCHANGED << dom, call, ltVars, tapVars, pathVars, dscVars >>

NextTree ==
    \/ TapTreeDefault \/ WithSingleLeaf \/ TreeFromLeaves \/ TreeFromBuilder
    \/ Rebuild \/ TreeMap \/ TreeDisplay

-----------------------------------------------------------------------------
(* Derivation paths and segments as text: derive/src/path.rs *)

\* Index numbers written in the texts are 0 .. MaxIdxText; paths hold up to
\* MaxTextPathLen elements and segment texts list up to MaxSegItems indexes
MaxIdxText == 2
MaxTextPathLen == 3
MaxSegItems == 9

\* The element types of a path: HardenedIndex, NormalIndex, DerivationIndex
IdxTypes == { "hardened", "normal", "either" }

HardenedMarkers == { "'", "h", "H" }

\* The values of an element type
IdxOf(ty) ==
    { [hardened |-> h, index |-> n] :
        h \in (CASE ty = "hardened" -> { TRUE } [] ty = "normal" -> { FALSE }
                 [] OTHER -> BOOLEAN),
        n \in 0 .. MaxIdxText }

\* FromStr of an index type: a decimal u32 below 2^31, for a hardened index
\* followed by one of the markers
Index_from_str(ty, s) ==
    IF s = <<>> THEN [ok |-> FALSE, err |-> "Empty"]
    ELSE LET marked == Last(s) \in HardenedMarkers
             no == ParseUInt(IF marked THEN Front(s) ELSE s, 2147483647)
         IN  IF marked /\ ty = "normal" THEN [ok |-> FALSE, err |-> "UnexpectedHardenedMarker"]
             ELSE IF ~marked /\ ty = "hardened"
                  THEN [ok |-> FALSE, err |-> "UnexpectedNormalIndex"]
             ELSE IF ~no.ok THEN [ok |-> FALSE, err |-> "NotANumber"]
             ELSE [ok |-> TRUE, val |-> [hardened |-> marked, index |-> no.val]]

\* Display of an index
Index_fmt(i) == IF i.hardened THEN ToDec(i.index) \o << "'" >> ELSE ToDec(i.index)

\* Into<DerivationIndex> for an element of type ty
into_DerivationIndex(ty, i) ==
    [hardened |-> IF ty = "either" THEN i.hardened ELSE ty = "hardened", index |-> i.index]

\* str::split(c): the texts between the occurrences of c, one empty text for
\* the empty text
split(s, c) ==
    LET cuts == SelectSeq([i \in 1 .. Len(s) |-> i], LAMBDA i : s[i] = c)
        ends == << 0 >> \o cuts \o << Len(s) + 1 >>
    IN  [j \in 1 .. Len(cuts) + 1 |-> SubSeq(s, ends[j] + 1, ends[j + 1] - 1)]

\* str::trim_start_matches(c)
RECURSIVE trim_start_matches(_, _)
trim_start_matches(s, c) ==
    IF s # <<>> /\ Head(s) = c THEN trim_start_matches(Tail(s), c) ELSE s

\* impl Display for DerivationPath
DerivationPath_fmt(p) ==
    LET RECURSIVE write(_)
        write(i) == IF i > Len(p) THEN <<>> ELSE << "/" >> \o Index_fmt(p[i]) \o write(i + 1)
    IN  write(1)

PathOk(inner) == [kind |-> "Ok", path |-> inner]

InvalidIndex(s) == [kind |-> "Err", err |-> "InvalidIndex", s |-> s]

InvalidFormat(s) == [kind |-> "Err", err |-> "InvalidFormat", s |-> s]

\* from_str that keeps a leading `/`
DerivationPath_from_str_keep_slash(ty, str) ==
    LET s == str
        parsed == [j \in DOMAIN split(s, "/") |-> Index_from_str(ty, split(s, "/")[j])]
    IN  IF \E j \in DOMAIN parsed : ~parsed[j].ok THEN InvalidIndex(s)
        ELSE IF Len(parsed) = 0 THEN InvalidFormat(s)
        ELSE PathOk([j \in DOMAIN parsed |-> parsed[j].val])

\* impl FromStr for DerivationPath<I>, I the element type ty
DerivationPath_from_str(ty, str) ==
    LET s == IF starts_with(str, << "/" >>) THEN Tail(str) ELSE str
        parsed == [j \in DOMAIN split(s, "/") |-> Index_from_str(ty, split(s, "/")[j])]
    IN  IF \E j \in DOMAIN parsed : ~parsed[j].ok THEN InvalidIndex(s)
        ELSE IF Len(parsed) = 0 THEN InvalidFormat(s)
        ELSE PathOk([j \in DOMAIN parsed |-> parsed[j].val])

\* DerivationPath::new, and #[derive(Default)]
DerivationPath_new == <<>>

DerivationPath_default == <<>>

\* FromIterator, From<[I; LEN]> and From<&[I]>: the items as they come
DerivationPath_from_iter(items) == items

DerivationPath_from(items) == items

\* shared_prefix returning the number of equal leading elements
shared_prefix_partial(ty, self, ty2, master) ==
    IF Len(master) <= Len(self)
    THEN LET differ == { i \in 1 .. Len(master) :
                           into_DerivationIndex(ty, self[i]) # into_DerivationIndex(ty2, master[i]) }
         IN  IF differ = {} THEN Len(master)
             ELSE (CHOOSE i \in differ : \A j \in differ : i <= j) - 1
    ELSE 0

\* DerivationPath::shared_prefix; ty and ty2 are the element types of self
\* and of master
shared_prefix(ty, self, ty2, master) ==
    IF Len(master) <= Len(self)
    THEN LET differ == { i \in 1 .. Len(master) :
                           into_DerivationIndex(ty, self[i]) # into_DerivationIndex(ty2, master[i]) }
             shared == IF differ = {} THEN Len(master)
                       ELSE (CHOOSE i \in differ : \A j \in differ : i <= j) - 1
         IN  IF shared = Len(master) THEN shared ELSE 0
    ELSE 0

\* DerivationPath::starts_with
path_starts_with(ty, self, ty2, master) == shared_prefix(ty, self, ty2, master) = Len(master)

\* Largest number of variants of a segment: NonEmptyOrdSet<I, 8>
SegMax == 8

\* impl FromStr for DerivationSeg<I>: the set of indexes, or the error
DerivationSeg_from_str(ty, s) ==
    LET t == trim_end_matches(trim_start_matches(s, "<"), ">")
    IN  IF Len(t) + 2 = Len(s)
        THEN LET parsed == [j \in DOMAIN split(t, ";") |-> Index_from_str(ty, split(t, ";")[j])]
                 set == { parsed[j].val : j \in DOMAIN parsed }
             IN  IF \E j \in DOMAIN parsed : ~parsed[j].ok
                 THEN [kind |-> "Err", err |-> "InvalidFormat"]
                 ELSE IF Cardinality(set) < 1 \/ Cardinality(set) > SegMax
                      THEN [kind |-> "Err", err |-> "Confinement"]
                 ELSE [kind |-> "Ok", seg |-> set]
        ELSE IF Index_from_str(ty, s).ok
             THEN [kind |-> "Ok", seg |-> { Index_from_str(ty, s).val }]
             ELSE [kind |-> "Err", err |-> "InvalidFormat"]

\* DerivationSeg::count
count(seg) == Cardinality(seg)

\* Paths of up to n elements of type ty
PathsOf(ty, n) == UNION { [1 .. k -> IdxOf(ty)] : k \in 0 .. n }

\* Path texts given to from_str as they are: empty, only slashes, a trailing
\* slash, a letter, and well-formed ones
PathTexts ==
    { <<>>, << "/" >>, << "/", "/" >>, << "0" >>, << "/", "0" >>, << "0", "/" >>,
      << "1", "/", "2" >>, << "/", "1", "/", "2" >>, << "1", "h" >>, << "/", "1", "'" >>,
      << "x" >>, << "1", "/", "/", "2" >> }

\* The text of a hardened path with the numbers ns, element i written with
\* the marker markers[i], behind a `/` when slash
MarkedText(ns, markers, slash) ==
    LET RECURSIVE write(_)
        write(i) == IF i > Len(ns) THEN <<>>
                    ELSE (IF i > 1 \/ slash THEN << "/" >> ELSE <<>>)
                         \o ToDec(ns[i]) \o << markers[i] >> \o write(i + 1)
    IN  write(1)

\* Paths given to shared_prefix and starts_with: up to MaxPrefixLen elements
\* with the index numbers 0 and 1
MaxPrefixLen == 2

PrefixPaths(ty) ==
    { p \in PathsOf(ty, MaxPrefixLen) : \A i \in 1 .. Len(p) : p[i].index <= 1 }

\* The text `<0;1;...;n-1>` of a segment listing n indexes
SegList(n) ==
    LET RECURSIVE write(_)
        write(i) == IF i >= n THEN <<>>
                    ELSE (IF i > 0 THEN << ";" >> ELSE <<>>) \o ToDec(i) \o write(i + 1)
    IN  << "<" >> \o write(0) \o << ">" >>

\* Segment texts with their angle brackets in other arrangements
SegMalformed ==
    { << "<", "<", "1" >>, << "1", ">", ">" >>, << "<", "1" >>, << "1", ">" >>,
      << "<", "<", "1", ">" >>, << "<", "1", ">", ">" >>, << ">", "<" >>,
      << "<", "1", ";", "2" >>, << "<", "<", "0", ";", "1" >>, << ">", "1", "<" >> }

PathTextCalls ==
    { [fn |-> "to_string", ty |-> ty, p |-> p] : ty \in { "hardened" }, p \in PathsOf("hardened", MaxTextPathLen) }
    \cup { [fn |-> "to_string", ty |-> ty, p |-> p] : ty \in { "normal" }, p \in PathsOf("normal", MaxTextPathLen) }
    \cup { [fn |-> "to_string", ty |-> ty, p |-> p] : ty \in { "either" }, p \in PathsOf("either", MaxTextPathLen) }
    \cup { [fn |-> "from_str", ty |-> ty, s |-> x] : ty \in IdxTypes, x \in PathTexts }
    \cup { [fn |-> "from_str_marked", ty |-> "hardened", ns |-> ns, markers |-> ms, slash |-> sl] :
             ns \in [1 .. 2 -> 0 .. MaxIdxText], ms \in [1 .. 2 -> HardenedMarkers],
             sl \in BOOLEAN }
    \cup { [fn |-> f] : f \in { "new", "default" } }
    \cup { [fn |-> f, ty |-> "either", items |-> p] :
             f \in { "from_iter", "from" }, p \in PathsOf("either", 1) }
    \cup { [fn |-> f, ty |-> ty, self |-> p, ty2 |-> "hardened", master |-> m] :
             f \in { "shared_prefix", "starts_with" }, ty \in { "hardened", "either" },
             p \in PrefixPaths("hardened"), m \in PrefixPaths("hardened") }
    \cup { [fn |-> f, ty |-> ty, self |-> p, ty2 |-> "normal", master |-> m] :
             f \in { "shared_prefix", "starts_with" }, ty \in { "normal", "either" },
             p \in PrefixPaths("normal"), m \in PrefixPaths("normal") }
    \cup { [fn |-> f, ty |-> "either", self |-> p, ty2 |-> ty2, master |-> m] :
             f \in { "shared_prefix", "starts_with" }, ty2 \in { "either" },
             p \in PrefixPaths("either"), m \in PrefixPaths("either") }
    \cup { [fn |-> f, ty |-> "hardened", self |-> p, ty2 |-> "normal", master |-> m] :
             f \in { "shared_prefix", "starts_with" },
             p \in PrefixPaths("hardened"), m \in PrefixPaths("normal") }
    \cup { [fn |-> "seg_from_str", ty |-> ty, shape |-> "bare", n |-> 1, s |-> ToDec(n)] :
             ty \in { "normal", "either" }, n \in 0 .. MaxIdxText }
    \cup { [fn |-> "seg_from_str", ty |-> ty, shape |-> "list", n |-> n, s |-> SegList(n)] :
             ty \in { "normal", "either" }, n \in 0 .. MaxSegItems }
    \cup { [fn |-> "seg_from_str", ty |-> ty, shape |-> "malformed", n |-> 0, s |-> x] :
             ty \in { "normal", "either" }, x \in SegMalformed }

\* p.to_string()
PathToString ==
    /\ dom = "pathtext" /\ ret = NoRet
    /\ call.fn = "to_string"
    /\ ret' = [kind |-> "text", s |-> DerivationPath_fmt(call.p)]
    /\ UNCHANGED << dom, call, ltVars, tapVars, pathVars, dscVars >>

\* from_str of the text Display wrote, and of that text without its first `/`
PathFromStrBack ==
    /\ dom = "pathtext" /\ ret.kind = "text"
    /\ ret' = [kind |-> "Parsed", s |-> ret.s,
               res |-> DerivationPath_from_str(call.ty, ret.s),
               bare |-> DerivationPath_from_str(call.ty,
                            IF starts_with(ret.s, << "/" >>) THEN Tail(ret.s) ELSE ret.s)]
    /\ UNCHANGED << dom, call, ltVars, tapVars, pathVars, dscVars >>

\* DerivationPath::<I>::from_str(s)
PathFromStr ==
    /\ dom = "pathtext" /\ ret = NoRet
    /\ call.fn \in { "from_str", "from_str_marked" }
    /\ ret' = IF call.fn = "from_str" THEN DerivationPath_from_str(call.ty, call.s)
              ELSE DerivationPath_from_str(call.ty,
                       MarkedText(call.ns, call.markers, call.slash))
    /\ UNCHANGED << dom, call, ltVars, tapVars, pathVars, dscVars >>

\* new(), default(), from_iter(items), from(items)
PathConstruct ==
    /\ dom = "pathtext" /\ ret = NoRet
    /\ call.fn \in { "new", "default", "from_iter", "from" }
    /\ ret' = PathOk(CASE call.fn = "new" -> DerivationPath_new
                       [] call.fn = "default" -> DerivationPath_default
                       [] call.fn = "from_iter" -> DerivationPath_from_iter(call.items)
                       [] call.fn = "from" -> DerivationPath_from(call.items))
    /\ UNCHANGED << dom, call, ltVars, tapVars, pathVars, dscVars >>

\* self.shared_prefix(master) and self.starts_with(master)
PathSharedPrefix ==
    /\ dom = "pathtext" /\ ret = NoRet
    /\ call.fn \in { "shared_prefix", "starts_with" }
    /\ ret' = IF call.fn = "shared_prefix"
              THEN [kind |-> "usize",
                    val |-> shared_prefix(call.ty, call.self, call.ty2, call.master)]
              ELSE [kind |-> "bool",
                    val |-> path_starts_with(call.ty, call.self, call.ty2, call.master)]
    /\ UNCHANGED << dom, call, ltVars, tapVars, pathVars, dscVars >>

\* DerivationSeg::<I>::from_str(s)
SegFromStr ==
    /\ dom = "pathtext" /\ ret = NoRet
    /\ call.fn = "seg_from_str"
    /\ ret' = DerivationSeg_from_str(call.ty, call.s)
    /\ UNCHANGED << dom, call, ltVars, tapVars, pathVars, dscVars >>

NextPathText ==
    \/ PathToString \/ PathFromStrBack \/ PathFromStr \/ PathConstruct
    \/ PathSharedPrefix \/ SegFromStr

-----------------------------------------------------------------------------
(* Descriptor ids: descriptors/src/descriptor.rs *)

HexChars == << "0", "1", "2", "3", "4", "5", "6", "7", "8", "9", "a", "b", "c", "d", "e", "f" >>

HexUpper == << "0", "1", "2", "3", "4", "5", "6", "7", "8", "9", "A", "B", "C", "D", "E", "F" >>

IsHex(c) == \E i \in 1 .. 16 : HexChars[i] = c \/ HexUpper[i] = c

HexVal(c) == (CHOOSE i \in 1 .. 16 : HexChars[i] = c \/ HexUpper[i] = c) - 1

\* ToHex for a byte slice: two lowercase digits a byte
to_hex(bytes) ==
    [i \in 1 .. 2 * Len(bytes) |->
        IF i % 2 = 1 THEN HexChars[(bytes[(i + 1) \div 2] \div 16) + 1]
        ELSE HexChars[(bytes[i \div 2] % 16) + 1]]

\* <[u8; 8]>::from_hex: sixteen hex digits of either case
from_hex(s) ==
    IF Len(s) # 16 THEN [kind |-> "Err", err |-> "InvalidLength"]
    ELSE IF \E i \in 1 .. 16 : ~IsHex(s[i]) THEN [kind |-> "Err", err |-> "InvalidChar"]
    ELSE [kind |-> "Ok",
          val |-> [i \in 1 .. 8 |-> 16 * HexVal(s[2 * i - 1]) + HexVal(s[2 * i])]]

\* A u64 is held as its four 16-bit quarters, lowest first.
\* u64::from_le_bytes and u64::to_le_bytes
from_le_bytes(b) == [k \in 1 .. 4 |-> b[2 * k - 1] + 256 * b[2 * k]]

to_le_bytes(v) ==
    [i \in 1 .. 8 |-> IF i % 2 = 1 THEN v[(i + 1) \div 2] % 256 ELSE v[i \div 2] \div 256]

\* u64::from_be_bytes
from_be_bytes(b) == [k \in 1 .. 4 |-> b[10 - 2 * k] + 256 * b[9 - 2 * k]]

\* From<[u8; 8]> reading the bytes highest first
DescrId_from_be(value) == from_be_bytes(value)

\* impl From<[u8; 8]> for DescrId
DescrId_from(value) == from_le_bytes(value)

\* impl From<DescrId> for [u8; 8]
DescrId_into(id) == to_le_bytes(id)

\* impl Display for DescrId
DescrId_fmt(id) ==
    LET val == to_le_bytes(id)
    IN  to_hex(SubSeq(val, 1, 4)) \o << "-" >> \o to_hex(SubSeq(val, 5, 8))

\* str::replace("-", "")
replace_dash(s) == SelectSeq(s, LAMBDA c : c # "-")

\* impl FromStr for DescrId
DescrId_from_str(s) ==
    IF Len(s) # 17 THEN [kind |-> "Err", err |-> "InvalidLength"]
    ELSE IF s[9] # "-" THEN [kind |-> "Err", err |-> "InvalidChar"]
    ELSE LET val == from_hex(replace_dash(s))
         IN  IF val.kind = "Err" THEN val
             ELSE [kind |-> "Ok", val |-> DescrId_from(val.val)]

\* The values a byte of an id takes
IdBytes == { 0, 10, 255 }

DescrIdCalls ==
    { [fn |-> f, bytes |-> b] : f \in { "to_string", "into" },
        b \in [1 .. 8 -> IdBytes] \cup { << 222, 173, 190, 239, 190, 173, 202, 254 >> } }
    \cup { [fn |-> "from_str", s |-> x] :
             x \in { <<>>, to_hex(<< 1, 2, 3, 4, 5, 6, 7, 8 >>) \o << "0" >>,
                     << "D", "E", "A", "D", "B", "E", "E", "F", "-",
                        "b", "e", "a", "d", "c", "a", "f", "e" >>,
                     << "-", "e", "a", "d", "b", "e", "e", "f", "-",
                        "b", "e", "a", "d", "c", "a", "f", "e" >>,
                     << "g", "e", "a", "d", "b", "e", "e", "f", "-",
                        "b", "e", "a", "d", "c", "a", "f", "e" >> } }

\* DescrId::from(bytes).to_string()
DescrIdToString ==
    /\ dom = "descrid" /\ ret = NoRet
    /\ call.fn = "to_string"
    /\ ret' = [kind |-> "text", id |-> DescrId_from(call.bytes),
               s |-> DescrId_fmt(DescrId_from(call.bytes))]
    /\ UNCHANGED << dom, call, ltVars, tapVars, pathVars, dscVars >>

\* DescrId::from_str of the text displayed
DescrIdFromStrBack ==
    /\ dom = "descrid" /\ ret.kind = "text"
    /\ ret' = [kind |-> "Parsed", id |-> ret.id, s |-> ret.s, res |-> DescrId_from_str(ret.s)]
    /\ UNCHANGED << dom, call, ltVars, tapVars, pathVars, dscVars >>

\* DescrId::from_str(s)
DescrIdFromStr ==
    /\ dom = "descrid" /\ ret = NoRet
    /\ call.fn = "from_str"
    /\ ret' = DescrId_from_str(call.s)
    /\ UNCHANGED << dom, call, ltVars, tapVars, pathVars, dscVars >>

\* <[u8; 8]>::from(DescrId::from(bytes)), and DescrId::from of those bytes
DescrIdInto ==
    /\ dom = "descrid" /\ ret = NoRet
    /\ call.fn = "into"
    /\ ret' = [kind |-> "bytes", id |-> DescrId_from(call.bytes),
               val |-> DescrId_into(DescrId_from(call.bytes)),
               back |-> DescrId_from(DescrId_into(DescrId_from(call.bytes)))]
    /\ UNCHANGED << dom, call, ltVars, tapVars, pathVars, dscVars >>

NextDescrId == DescrIdToString \/ DescrIdFromStrBack \/ DescrIdFromStr \/ DescrIdInto

-----------------------------------------------------------------------------
(* Argument patterns of descriptor expressions: compiler/compile.rs *)

\* Argument lists of up to MaxArgs arguments are checked against patterns of
\* up to MaxFormLen elements before an optional variadic one
MaxArgs == 3
MaxFormLen == 2

\* DescrAst: the kinds of an argument
AstKinds == { "Key", "Lit", "Script", "Tree" }

FormCalls ==
    { [fn |-> "check_forms", ast |-> [name |-> n, children |-> c], ident |-> "pkh", form |-> f \o v] :
        n \in { "pkh", "wpkh" },
        c \in UNION { [1 .. k -> [kind : AstKinds]] : k \in 0 .. MaxArgs },
        f \in UNION { [1 .. k -> AstKinds] : k \in 0 .. MaxFormLen },
        v \in { <<>>, << "VariadicKey" >>, << "VariadicLit" >> } }

CheckForms ==
    /\ dom = "forms" /\ ret = NoRet
    /\ call.fn = "check_forms"
    /\ ret' = check_forms(call.ast, call.ident, call.form)
    /\ UNCHANGED << dom, call, ltVars, tapVars, pathVars, dscVars >>

NextForms == CheckForms

-----------------------------------------------------------------------------
(* Batch derivation: std/src/derive.rs *)

\* Batches are asked for from an index within BatchSpan of either end of the
\* normal index range, with max_count in 0 .. MaxCount
BatchSpan == 3
MaxCount == 4

\* The largest NormalIndex, 2^31 - 1
NormalIndexMax == 2147483647

\* Derive::derive: the value derived at (change, index)
derive(change, index) == [change |-> change, index |-> index]

\* NormalIndex::checked_inc_assign: None, the index unchanged, at the
\* largest normal index
checked_inc_assign(index) ==
    IF index = NormalIndexMax THEN [some |-> FALSE, index |-> index]
    ELSE [some |-> TRUE, index |-> index + 1]

\* Derive::derive_batch: the loop from the state (index, count, batch), the
\* count a u8
RECURSIVE derive_batch_loop(_, _, _, _, _)
derive_batch_loop(change, index, cnt, batch, max_count) ==
    LET batch2 == Append(batch, derive(change, index))
        count2 == (cnt + 1) % 256
        inc == checked_inc_assign(index)
    IN  IF ~inc.some \/ count2 >= max_count THEN batch2
        ELSE derive_batch_loop(change, inc.index, count2, batch2, max_count)

derive_batch(change, from, max_count) == derive_batch_loop(change, from, 0, <<>>, max_count)

BatchCalls ==
    { [fn |-> "derive_batch", change |-> c, from |-> f, max_count |-> m] :
        c \in 0 .. 1,
        f \in (0 .. BatchSpan) \cup { NormalIndexMax - k : k \in 0 .. BatchSpan },
        m \in 0 .. MaxCount }

DeriveBatch ==
    /\ dom = "batch" /\ ret = NoRet
    /\ call.fn = "derive_batch"
    /\ ret' = [kind |-> "Vec", batch |-> derive_batch(call.change, call.from, call.max_count)]
    /\ UNCHANGED << dom, call, ltVars, tapVars, pathVars, dscVars >>

NextBatch == DeriveBatch

-----------------------------------------------------------------------------
(* Base58: invoice/src/base58.rs *)

\* Byte strings of up to MaxDataLen bytes are encoded
MaxDataLen == 3

\* The values a byte of the data takes
DataBytes == { 0, 1, 57, 58, 255 }

\* b"123456789ABCDEFGHJKLMNPQRSTUVWXYZabcdefghijkmnopqrstuvwxyz"
BASE58_CHARS ==
    << 49, 50, 51, 52, 53, 54, 55, 56, 57, 65, 66, 67, 68, 69, 70, 71,
       72, 74, 75, 76, 77, 78, 80, 81, 82, 83, 84, 85, 86, 87, 88, 89,
       90, 97, 98, 99, 100, 101, 102, 103, 104, 105, 106, 107, 109, 110, 111, 112,
       113, 114, 115, 116, 117, 118, 119, 120, 121, 122 >>

\* The digit of each of the 128 ASCII bytes, -1 for None
BASE58_DIGITS ==
    << -1, -1, -1, -1, -1, -1, -1, -1, -1, -1, -1, -1, -1, -1, -1, -1,
       -1, -1, -1, -1, -1, -1, -1, -1, -1, -1, -1, -1, -1, -1, -1, -1,
       -1, -1, -1, -1, -1, -1, -1, -1, -1, -1, -1, -1, -1, -1, -1, -1,
       -1, 0, 1, 2, 3, 4, 5, 6, 7, 8, -1, -1, -1, -1, -1, -1,
       -1, 9, 10, 11, 12, 13, 14, 15, 16, -1, 17, 18, 19, 20, 21, -1,
       22, 23, 24, 25, 26, 27, 28, 29, 30, 31, 32, -1, -1, -1, -1, -1,
       -1, 33, 34, 35, 36, 37, 38, 39, 40, 41, 42, 43, -1, 44, 45, 46,
       47, 48, 49, 50, 51, 52, 53, 54, 55, 56, 57, -1, -1, -1, -1, -1 >>

\* Number of elements SmallVec holds on the stack
SmallVecStack == 100

SmallVec_new == [len |-> 0, stack |-> <<>>, heap |-> <<>>]

SmallVec_push(v, val) ==
    IF v.len < SmallVecStack
    THEN [v EXCEPT !.stack = Append(v.stack, val), !.len = v.len + 1]
    ELSE [v EXCEPT !.heap = Append(v.heap, val)]

SmallVec_iter(v) == SubSeq(v.stack, 1, v.len) \o v.heap

\* format_iter: `for ch in ret.iter_mut()` over the digits from position i
\* on with the carry; the digits after the loop and the carry left
RECURSIVE mul_add(_, _, _)
mul_add(digits, i, carry) ==
    IF i > Len(digits) THEN [digits |-> digits, carry |-> carry]
    ELSE LET new_ch == digits[i] * 256 + carry
         IN  mul_add([digits EXCEPT ![i] = new_ch % 58], i + 1, new_ch \div 58)

\* format_iter: `while carry > 0 { ret.push(carry % 58); carry /= 58 }`
RECURSIVE push_carry(_, _)
push_carry(v, carry) ==
    IF carry > 0 THEN push_carry(SmallVec_push(v, carry % 58), carry \div 58) ELSE v

\* format_iter: the loop over the bytes of data from position i on
RECURSIVE format_loop(_, _, _, _, _)
format_loop(data, i, v, leading_zero_count, leading_zeroes) ==
    IF i > Len(data) THEN [ret |-> v, leading_zero_count |-> leading_zero_count]
    ELSE LET carry == data[i]
             zero == leading_zeroes /\ carry = 0
             r == mul_add(SmallVec_iter(v), 1, carry)
             stored == [v EXCEPT !.stack = SubSeq(r.digits, 1, v.len),
                                 !.heap = SubSeq(r.digits, v.len + 1, Len(r.digits))]
         IN  format_loop(data, i + 1, push_carry(stored, r.carry),
                         IF zero THEN leading_zero_count + 1 ELSE leading_zero_count,
                         zero)

\* format_iter: `for _ in 0..leading_zero_count { ret.push(0) }`
RECURSIVE push_zeroes(_, _)
push_zeroes(v, n) == IF n = 0 THEN v ELSE push_zeroes(SmallVec_push(v, 0), n - 1)

\* encode with the leading zero bytes left out
encode_no_leading(data) ==
    LET r == format_loop(data, 1, SmallVec_new, 0, TRUE)
        digits == Reverse(SmallVec_iter(r.ret))
    IN  [i \in 1 .. Len(digits) |-> BASE58_CHARS[digits[i] + 1]]

\* encode / encode_iter / format_iter: the bytes of the text written
encode(data) ==
    LET r == format_loop(data, 1, SmallVec_new, 0, TRUE)
        digits == Reverse(SmallVec_iter(push_zeroes(r.ret, r.leading_zero_count)))
    IN  [i \in 1 .. Len(digits) |-> BASE58_CHARS[digits[i] + 1]]

\* decode: `for d256 in scratch.iter_mut().rev()` from position i down
RECURSIVE mul_add_rev(_, _, _)
mul_add_rev(scratch, i, carry) ==
    IF i < 1 THEN [scratch |-> scratch, carry |-> carry]
    ELSE LET c == carry + scratch[i] * 58
         IN  mul_add_rev([scratch EXCEPT ![i] = c % 256], i - 1, c \div 256)

\* decode: the loop over the bytes of the text from position i on
RECURSIVE decode_loop(_, _, _)
decode_loop(data, i, scratch) ==
    IF i > Len(data) THEN [kind |-> "Ok", scratch |-> scratch]
    ELSE LET d58 == data[i]
         IN  IF d58 >= Len(BASE58_DIGITS) THEN [kind |-> "Err", err |-> "BadByte", val |-> d58]
             ELSE IF BASE58_DIGITS[d58 + 1] = -1
                  THEN [kind |-> "Err", err |-> "BadByte", val |-> d58]
             ELSE LET r == mul_add_rev(scratch, Len(scratch), BASE58_DIGITS[d58 + 1])
                  IN  IF r.carry # 0 THEN [kind |-> "panic"]
                      ELSE decode_loop(data, i + 1, r.scratch)

\* Iterator::take_while(x == c).count() and skip_while(x == c)
RECURSIVE leading(_, _)
leading(s, c) == IF s # <<>> /\ Head(s) = c THEN 1 + leading(Tail(s), c) ELSE 0

decode(data) ==
    LET scratch == [i \in 1 .. 1 + (Len(data) * 11) \div 15 |-> 0]
        r == decode_loop(data, 1, scratch)
    IN  IF r.kind # "Ok" THEN r
        ELSE [kind |-> "Ok",
              val |-> [i \in 1 .. leading(data, BASE58_CHARS[1]) |-> 0]
                      \o SubSeq(r.scratch, leading(r.scratch, 0) + 1, Len(r.scratch))]

Base58Calls ==
    { [fn |-> "encode", data |-> d] : d \in UNION { [1 .. n -> DataBytes] : n \in 0 .. MaxDataLen } }
    \cup { [fn |-> "decode", data |-> x] :
             x \in { << 48 >>, << 49, 73 >>, << 200 >>, << 50, 108, 51 >> } }

\* base58::encode(data)
Base58Encode ==
    /\ dom = "base58" /\ ret = NoRet
    /\ call.fn = "encode"
    /\ ret' = [kind |-> "text", s |-> encode(call.data)]
    /\ UNCHANGED << dom, call, ltVars, tapVars, pathVars, dscVars >>

\* base58::decode of the text encode returned
Base58DecodeBack ==
    /\ dom = "base58" /\ ret.kind = "text"
    /\ ret' = [kind |-> "Decoded", s |-> ret.s, res |-> decode(ret.s)]
    /\ UNCHANGED << dom, call, ltVars, tapVars, pathVars, dscVars >>

\* base58::decode(data)
Base58Decode ==
    /\ dom = "base58" /\ ret = NoRet
    /\ call.fn = "decode"
    /\ ret' = [kind |-> "Decoded", s |-> call.data, res |-> decode(call.data)]
    /\ UNCHANGED << dom, call, ltVars, tapVars, pathVars, dscVars >>

NextBase58 == Base58Encode \/ Base58DecodeBack \/ Base58Decode

-----------------------------------------------------------------------------
(* Specifications *)

DscIdle == src = NoDescr /\ text = <<>> /\ r_std = NoParse /\ r_var = NoParse

InitTimelock ==
    /\ dom = "timelock"
    /\ lt_value \in TimelockInputs
    /\ lt_height = NoCall
    /\ lt_timestamp = NoCall
    /\ TapIdle /\ PathIdle /\ DscIdle /\ CallIdle

InitTap == dom = "taptree" /\ LtIdle /\ TapIdle /\ PathIdle /\ DscIdle /\ CallIdle

InitPath ==
    /\ dom = "path"
    /\ \E n \in 0 .. MaxPathLen : path \in [1 .. n -> DerivationIndex]
    /\ term = NoTerminal
    /\ LtIdle /\ TapIdle /\ DscIdle /\ CallIdle

InitDescr ==
    /\ dom = "descr"
    /\ src \in DescrInputs
    /\ text = to_string(src)
    /\ r_std = NoParse
    /\ r_var = NoParse
    /\ LtIdle /\ TapIdle /\ PathIdle /\ CallIdle

InitDescrAny ==
    /\ dom = "descr"
    /\ src \in RewrittenInputs
    /\ \E form \in Forms : text = Written(src, form)
    /\ r_std = NoParse
    /\ r_var = NoParse
    /\ LtIdle /\ TapIdle /\ PathIdle /\ CallIdle

InitWitness ==
    /\ dom = "witness"
    /\ call \in LegacyWitnessCalls
    /\ ret = NoRet
    /\ LtIdle /\ TapIdle /\ PathIdle /\ DscIdle

SpecWitness == InitWitness /\ [][NextWitness]_vars

InitLock ==
    /\ dom = "lock"
    /\ call \in TimelockCalls
    /\ ret = NoRet
    /\ LtIdle /\ TapIdle /\ PathIdle /\ DscIdle

SpecLock == InitLock /\ [][NextLock]_vars

InitSighash ==
    /\ dom = "sighash"
    /\ call \in SighashCalls
    /\ ret = NoRet
    /\ LtIdle /\ TapIdle /\ PathIdle /\ DscIdle

SpecSighash == InitSighash /\ [][NextSighash]_vars

InitPsbtVer ==
    /\ dom = "psbtver"
    /\ call \in PsbtVerCalls
    /\ ret = NoRet
    /\ LtIdle /\ TapIdle /\ PathIdle /\ DscIdle

SpecPsbtVer == InitPsbtVer /\ [][NextPsbtVer]_vars

InitTree ==
    /\ dom = "tree"
    /\ call \in TreeCalls
    /\ ret = NoRet
    /\ LtIdle /\ TapIdle /\ PathIdle /\ DscIdle

SpecTree == InitTree /\ [][NextTree]_vars

InitPathText ==
    /\ dom = "pathtext"
    /\ call \in PathTextCalls
    /\ ret = NoRet
    /\ LtIdle /\ TapIdle /\ PathIdle /\ DscIdle

SpecPathText == InitPathText /\ [][NextPathText]_vars

InitDescrId ==
    /\ dom = "descrid"
    /\ call \in DescrIdCalls
    /\ ret = NoRet
    /\ LtIdle /\ TapIdle /\ PathIdle /\ DscIdle

SpecDescrId == InitDescrId /\ [][NextDescrId]_vars

InitForms ==
    /\ dom = "forms"
    /\ call \in FormCalls
    /\ ret = NoRet
    /\ LtIdle /\ TapIdle /\ PathIdle /\ DscIdle

SpecForms == InitForms /\ [][NextForms]_vars

InitBatch ==
    /\ dom = "batch"
    /\ call \in BatchCalls
    /\ ret = NoRet
    /\ LtIdle /\ TapIdle /\ PathIdle /\ DscIdle

SpecBatch == InitBatch /\ [][NextBatch]_vars

InitBase58 ==
    /\ dom = "base58"
    /\ call \in Base58Calls
    /\ ret = NoRet
    /\ LtIdle /\ TapIdle /\ PathIdle /\ DscIdle

SpecBase58 == InitBase58 /\ [][NextBase58]_vars

Init == InitTimelock \/ InitTap \/ InitPath \/ InitDescr \/ InitDescrAny \/ InitWitness
            \/ InitLock \/ InitSighash \/ InitPsbtVer \/ InitTree
            \/ InitPathText \/ InitDescrId \/ InitForms
            \/ InitBatch \/ InitBase58

Next == NextTimelock \/ NextTap \/ NextPath \/ NextDescr \/ NextWitness
            \/ NextLock \/ NextSighash \/ NextPsbtVer \/ NextTree
            \/ NextPathText \/ NextDescrId \/ NextForms
            \/ NextBatch \/ NextBase58

Spec == Init /\ [][Next]_vars

SpecDescr == InitDescr /\ [][NextDescr]_vars

SpecDescrAny == InitDescrAny /\ [][NextDescr]_vars

SpecTimelock == InitTimelock /\ [][NextTimelock]_vars

SpecTap == InitTap /\ [][NextTap]_vars

SpecPath == InitPath /\ [][NextPath]_vars

-----------------------------------------------------------------------------
(* Claims: timelocks *)

\* C2: for every u32 t exactly one of LockHeight::try_from(t) and
\* LockTimestamp::try_from(t) succeeds; LockHeight succeeds iff
\* t < 500_000_000, LockTimestamp succeeds iff t >= 500_000_000, and the
\* failing conversion returns InvalidTimelock(t).
C2_TimelockPartition ==
    /\ lt_height.kind # "none" =>
          /\ (lt_height.kind = "Ok") <=> (lt_value < LOCKTIME_THRESHOLD)
          /\ lt_height.kind # "Ok" => lt_height = InvalidTimelock(lt_value)
    /\ lt_timestamp.kind # "none" =>
          /\ (lt_timestamp.kind = "Ok") <=> (lt_value >= LOCKTIME_THRESHOLD)
          /\ lt_timestamp.kind # "Ok" => lt_timestamp = InvalidTimelock(lt_value)
    /\ (lt_height.kind # "none" /\ lt_timestamp.kind # "none") =>
          ((lt_height.kind = "Ok") # (lt_timestamp.kind = "Ok"))

-----------------------------------------------------------------------------
(* Claims: taproot script trees *)

Depths(leaves) == [i \in 1 .. Len(leaves) |-> leaves[i].depth]

\* The reference Merkle fold: while the two topmost items of the stack have
\* the same depth d they are replaced by one item of depth d - 1
RECURSIVE RefMerge(_)
RefMerge(st) ==
    IF Len(st) >= 2 /\ st[Len(st)] = st[Len(st) - 1]
    THEN RefMerge(Append(SubSeq(st, 1, Len(st) - 2), st[Len(st)] - 1))
    ELSE st

\* The stack of the reference fold after the first n depths
RECURSIVE RefStack(_, _)
RefStack(depths, n) ==
    IF n = 0 THEN <<>> ELSE RefMerge(Append(RefStack(depths, n - 1), depths[n]))

\* The fold ends after the last leaf, and not earlier, with one item of depth 0
RefAccepts(depths) ==
    /\ Len(depths) >= 1
    /\ RefStack(depths, Len(depths)) = << 0 >>
    /\ \A n \in 1 .. Len(depths) - 1 : RefStack(depths, n) # << 0 >>

\* C3: after any sequence of push_leaf calls finish succeeds exactly when
\* the buoy level has reached 0 through at least one pushed leaf, which is
\* when is_finalized() is true; otherwise finish returns UnfinalizedTree
\* carrying the buoy's current level, so an empty builder never finishes.
C3_FinishIffLevelZero ==
    LET r == finish(builder)
    IN  /\ (r.kind = "Ok") <=> (Len(builder.leaves) >= 1 /\ level(builder.buoy) = 0)
        /\ (r.kind = "Ok") <=> is_finalized(builder)
        /\ r.kind = "Ok" => r.tree = builder.leaves
        /\ r.kind # "Ok" => r = UnfinalizedTree(level(builder.buoy))
        /\ builder.leaves = <<>> => r.kind = "Err"
        /\ finishRes.kind # "none" => finishRes = r

C3_Witness ==
    /\ finishRes.kind = "Ok"
    /\ Len(finishRes.tree) >= 3
    /\ level(builder.buoy) = 0

\* C4: for leaves with depths >= 1, TapTree::from_leaves succeeds exactly
\* when the reference Merkle fold accepts the list of depths.
C4_FromLeavesIsMerkleFold ==
    (flRes.kind # "none" /\ \A i \in 1 .. Len(fed) : fed[i].depth >= 1) =>
        ((flRes.kind = "Ok") <=> RefAccepts(Depths(fed)))

\* C5 (state part): a push_leaf that returned FinalizedTree met a finalized
\* builder and left the leaf out of it; a first leaf of depth 0 finalizes the
\* builder at once; from_leaves answers MountainRange exactly for the lists
\* holding a leaf after the one that finalized the tree.
C5_State ==
    /\ pushRes = FinalizedTree =>
          /\ builder.finalized
          /\ Len(fed) > Len(builder.leaves)
    /\ builder.leaves = SubSeq(fed, 1, Len(builder.leaves))
    /\ (fed # <<>> /\ fed[1].depth = 0) =>
          (builder.finalized /\ Len(builder.leaves) = 1)
    /\ flRes.kind # "none" =>
          ((flRes = MountainRange) <=> (Len(fed) > Len(builder.leaves)))

\* C5 (step part): a push_leaf on a finalized builder returns
\* Err(FinalizedTree) and changes neither leaves, buoy nor the finalized flag.
C5_Step ==
    (builder.finalized /\ fed' # fed) => (builder' = builder /\ pushRes' = FinalizedTree)

\* C5: push_leaf on an already finalized builder returns Err(FinalizedTree)
\* and leaves the builder unchanged (one depth-0 leaf finalizes at once, so
\* the second push fails); from_leaves reports it as MountainRange.
C5_PushAfterFinalized == [] C5_State /\ [][C5_Step]_vars

C5_Witness ==
    /\ pushRes = FinalizedTree
    /\ flRes = MountainRange
    /\ Len(builder.leaves) >= 2

\* C6: merkle_root returns a node hash for every finalized tree: the
\* TapLeafHash of the script for a one-leaf tree, a TapBranch hash folded
\* from the leaves for a tree of more than one leaf.
C6_MerkleRootOfEveryTree ==
    root.kind # "none" =>
        /\ root.kind = "hash"
        /\ Len(finishRes.tree) = 1 => root.hash = TapLeafHash(finishRes.tree[1].script)
        /\ Len(finishRes.tree) > 1 => root.hash.tag = "TapBranch"

\* C7: a factory made from an internal key and a finalized tree of n leaves
\* yields exactly n (control block, leaf script) pairs, last-pushed leaf
\* first, each block carrying the leaf's version and the factory's key and
\* parity, and None on every later call.
C7_FactoryYieldsEveryLeaf ==
    factory.kind # "none" =>
        /\ factory.kind = "ok"
        /\ LET n == Len(finishRes.tree)
           IN  /\ Len(factory.remaining_leaves) = (IF Len(emitted) <= n THEN n - Len(emitted) ELSE 0)
               /\ \A i \in 1 .. Len(emitted) :
                     IF i <= n
                     THEN /\ emitted[i].kind = "Some"
                          /\ emitted[i].leaf_script = finishRes.tree[n + 1 - i].script
                          /\ emitted[i].control_block.leaf_version
                                = finishRes.tree[n + 1 - i].script.version
                          /\ emitted[i].control_block.internal_pk = factory.internal_pk
                          /\ emitted[i].control_block.parity = factory.parity
                     ELSE emitted[i].kind = "None"

-----------------------------------------------------------------------------
(* Claims: derivation paths *)

\* C8: terminal returns Some((keychain, index)) only when the path has at
\* least two elements, the last two are normal, the second-to-last fits in
\* u8 and the last fits in u16; keychain and index are then those two
\* values; in every other case it returns None.
C8_TerminalChecksBothRanges ==
    term.kind # "none" =>
        LET n == Len(path)
        IN  IF /\ n >= 2
               /\ ~path[n].hardened
               /\ ~path[n - 1].hardened
               /\ path[n - 1].index <= U8Max
               /\ path[n].index <= U16Max
            THEN term = TerminalSome(path[n - 1].index, path[n].index)
            ELSE term = TerminalNone

-----------------------------------------------------------------------------
(* Claims: descriptors *)

\* The input is a value of its descriptor type: the threshold and the number
\* of keys fit the field types
IsDescrValue(d) ==
    \/ d.variant \in KeyVariants
    \/ d.variant \in MultiVariants
         /\ d.threshold <= U4Max /\ Len(d.keys) \in 1 .. MultiKeysMax
    \/ d.variant \in TrMultiVariants
         /\ d.threshold <= U16Max /\ Len(d.keys) \in 1 .. TrKeysMax

\* C1: for every descriptor d of the recognized grammar,
\* StdDescr::from_str(d.to_string()) is Ok(d), the from_str of d's own type
\* gives the same descriptor, and the parse result displays as the input text.
C1_DescriptorRoundTrip ==
    IsDescrValue(src) =>
        /\ r_std.kind # "none" =>
               r_std = DOk(src) /\ to_string(r_std.val) = text
        /\ r_var.kind # "none" =>
               r_var = DOk(src) /\ to_string(r_var.val) = text

IsMultisig(d) == d.variant \in MultiVariants \cup TrMultiVariants

\* C9: a multisig text (multi / sortedmulti under sh, wsh, sh(wsh); multi_a /
\* sortedmulti_a under tr) whose threshold k is 0 or greater than its number
\* of keys n is rejected with an error, and no from_str ever returns a
\* descriptor with k = 0 or k > n.
C9_ThresholdWithinKeys ==
    /\ IsMultisig(src) /\ (src.threshold = 0 \/ src.threshold > Len(src.keys)) =>
           /\ r_std.kind # "none" => r_std.kind = "Err"
           /\ r_var.kind # "none" => r_var.kind = "Err"
    /\ \A r \in { r_std, r_var } :
           r.kind = "Ok" /\ IsMultisig(r.val) =>
               r.val.threshold >= 1 /\ r.val.threshold <= Len(r.val.keys)

\* C10: multi and sortedmulti texts parse for every 1 <= k <= n <= 16 and
\* are rejected with 17 keys; multi_a and sortedmulti_a texts parse for every
\* 1 <= k <= n up to 999 keys and are rejected with 1000 keys.
C10_MultisigLimits ==
    LET k == src.threshold
        n == Len(src.keys)
        parses(r) == r.kind # "none" => r = DOk(src)
        rejected(r) == r.kind # "none" => r.kind = "Err"
    IN  /\ src.variant \in MultiVariants /\ 1 <= k /\ k <= n /\ n <= MultiKeysMax =>
               parses(r_std) /\ parses(r_var)
        /\ src.variant \in MultiVariants /\ n > MultiKeysMax =>
               rejected(r_std) /\ rejected(r_var)
        /\ src.variant \in TrMultiVariants /\ 1 <= k /\ k <= n /\ n <= TrKeysMax =>
               parses(r_std) /\ parses(r_var)
        /\ src.variant \in TrMultiVariants /\ n > TrKeysMax =>
               rejected(r_std) /\ rejected(r_var)

\* C11: every descriptor parser returns Ok or a DescrParseError for every
\* script expression and never reaches unreachable!(); an expression with an
\* unknown name or the wrong number of arguments fails with InvalidArgs,
\* NotSupported, InvalidScriptExpr or NoRequiredScript, and a well-formed
\* tr(KEY, TREE) gives Err(NotSupported).
C11_ParsersNeverPanic ==
    \A r \in { r_std, r_var } :
        r.kind # "none" =>
            /\ r.kind \in { "Ok", "Err" }
            /\ text # to_string(src) =>
                   /\ r.kind = "Err"
                   /\ r.err \in { "InvalidArgs", "NotSupported", "InvalidScriptExpr",
                                  "NoRequiredScript" }
            /\ src.variant = "TrTree" => r = DErr("NotSupported")

-----------------------------------------------------------------------------
(* Claims: witnesses of the single-key descriptors *)

\* The push of the redeem script of sh(wpkh): the p2wpkh script of the key
RedeemScriptPush(key) == [push |-> [script |-> "p2wpkh", of |-> key]]

\* C12: for wpkh and sh(wpkh), legacy_witness given a key signature whose
\* origin extends the descriptor's xpub origin returns the witness
\* [sig, key]; the sig_script is empty for wpkh and is the push of the
\* redeem script for sh(wpkh).
C12_SegwitKeyWitness ==
    (/\ ret # NoRet
     /\ call.fn = "legacy_witness"
     /\ call.descr \in { "Wpkh", "ShWpkh" }
     /\ \E i \in 1 .. Len(call.keysigs) : is_subset_of(call.our_origin, call.keysigs[i].origin))
    => LET i  == find_keysig(call.our_origin, call.keysigs)
           ks == call.keysigs[i].keysig
       IN  /\ ret.kind = "Some"
           /\ ret.witness = Some(<< ks.sig, ks.key >>)
           /\ call.descr = "Wpkh" => ret.sig_script = <<>>
           /\ call.descr = "ShWpkh" => ret.sig_script = << RedeemScriptPush(ks.key) >>

-----------------------------------------------------------------------------
(* Claims: values of the timelock types *)

\* C13: every LockTimestamp obtained from a public constructor (anytime,
\* Default, from_unix_timestamp, the try_from family, from_str) holds 0 or a
\* value >= 500_000_000, and every LockHeight holds a value < 500_000_000.
C13_TimelockValueRanges ==
    (dom = "lock" /\ ret # NoRet /\ ret.kind \in { "Ok", "Some" }) =>
        /\ ret.ty = "LockTimestamp" => (ret.val = 0 \/ ret.val >= LOCKTIME_THRESHOLD)
        /\ ret.ty = "LockHeight" => ret.val < LOCKTIME_THRESHOLD

-----------------------------------------------------------------------------
(* Claims: signature hash types *)

StandardSighash == { 1, 2, 3, 129, 130, 131 }

Bit7(n) == (n \div 128) % 2 = 1

\* C14 as stated: from_consensus(n) maps each of 0x01, 0x02, 0x03, 0x81,
\* 0x82, 0x83 to its flag and anyone-can-pay bit, every other value with
\* bit 7 set to (All, true), and every remaining value to (All, false).
C14_FromConsensusAsStated ==
    (dom = "sighash" /\ call.fn = "from_consensus" /\ ret # NoRet) =>
        IF call.n \in StandardSighash
        THEN ret.val = SighashType(CASE call.n % 128 = 1 -> "All"
                                     [] call.n % 128 = 2 -> "None"
                                     [] call.n % 128 = 3 -> "Single",
                                   call.n >= 128)
        ELSE IF Bit7(call.n) THEN ret.val = SighashType("All", TRUE)
        ELSE ret.val = SighashType("All", FALSE)

\* C14 amended: from_consensus(n) looks only at bits 0-4 and bit 7 of n:
\* anyone-can-pay is bit 7, and the flag is None when the low five bits are
\* 2, Single when they are 3, and All otherwise.
C14_FromConsensusMasked ==
    (dom = "sighash" /\ call.fn = "from_consensus" /\ ret # NoRet) =>
        /\ ret.val.anyone_can_pay = Bit7(call.n)
        /\ ret.val.flag = "None" <=> call.n % 32 = 2
        /\ ret.val.flag = "Single" <=> call.n % 32 = 3
        /\ ret.val.flag \in { "All", "None", "Single" }

\* from_consensus has answered for 0xA2, a value outside the six that has
\* bit 7 set and maps to (None, true)
C14_Witness ==
    /\ dom = "sighash" /\ call.fn = "from_consensus" /\ call.n = 162
    /\ ret # NoRet /\ ret.val = SighashType("None", TRUE)

\* C15: from_standard(into_u8(s)) = Ok(s) and from_standard(into_u32(s)) =
\* Ok(s) for each of the six SighashType values, and from_standard(n) fails
\* with NonStandardSighashType(n) for every n outside {0x01, 0x02, 0x03,
\* 0x81, 0x82, 0x83}.
C15_FromStandardInverse ==
    /\ (dom = "sighash" /\ call.fn \in { "into_u8", "into_u32" }
            /\ ret.kind \in { "Ok", "Err" }) =>
           ret = [kind |-> "Ok", val |-> call.s]
    /\ (dom = "sighash" /\ call.fn = "from_standard" /\ ret # NoRet
            /\ call.n \notin StandardSighash) =>
           ret = [kind |-> "Err", val |-> call.n]

\* single_anyone_can_pay() has gone through into_u8 and back
C15_Witness ==
    /\ dom = "sighash" /\ call.fn = "into_u8" /\ call.s = SighashType("Single", TRUE)
    /\ ret.kind = "Ok"

-----------------------------------------------------------------------------
(* Claims: PSBT versions *)

\* C16: PsbtVer::try_from(n) and try_from_standard_u32(n) return V0 for 0 and
\* V2 for 2 and for every other n return Err(PsbtUnsupportedVer(n)) carrying
\* exactly the value given; to_standard_u32 maps V0 to 0 and V2 to 2.
C16_PsbtVerCarriesValue ==
    (dom = "psbtver" /\ ret # NoRet) =>
        CASE call.fn = "try_from" ->
                 IF call.value = usize(0, 0) THEN ret = [kind |-> "Ok", val |-> "V0"]
                 ELSE IF call.value = usize(0, 2) THEN ret = [kind |-> "Ok", val |-> "V2"]
                 ELSE ret.kind = "Err" /\ call.value = usize(0, ret.val)
          [] call.fn = "try_from_standard_u32" ->
                 IF call.v = 0 THEN ret = [kind |-> "Ok", val |-> "V0"]
                 ELSE IF call.v = 2 THEN ret = [kind |-> "Ok", val |-> "V2"]
                 ELSE ret = [kind |-> "Err", val |-> call.v]
          [] call.fn = "to_standard_u32" ->
                 ret.val = (IF call.self = "V0" THEN 0 ELSE 2)

-----------------------------------------------------------------------------
(* Claims: leaves of a tap tree *)

HasDepthZero(leaves) == \E i \in 1 .. Len(leaves) : leaves[i].depth = 0

\* C17: a list of more than one leaf that holds a depth-0 leaf at any position
\* is rejected: from_leaves returns an InvalidTree error, and no TapTree of two
\* or more leaves holds a depth-0 leaf.
C17_DepthZeroRejected ==
    dom = "taptree" =>
        /\ (flRes.kind # "none" /\ Len(fed) > 1 /\ HasDepthZero(fed)) => flRes.kind = "Err"
        /\ (flRes.kind = "Ok" /\ Len(flRes.tree) > 1) => ~HasDepthZero(flRes.tree)
        /\ (finishRes.kind = "Ok" /\ Len(finishRes.tree) > 1) => ~HasDepthZero(finishRes.tree)

\* C18: for every builder that finishes successfully, from_leaves over the
\* leaves of the tree it returned succeeds too and returns an equal tree, with
\* the same leaves in the same order.
C18_RebuildGivesSameTree ==
    (dom = "tree" /\ call.fn \in { "finish", "from_builder" } /\ ret.kind = "Rebuilt") =>
        /\ ret.res.kind = "Ok"
        /\ ret.res.tree = ret.of
        /\ ret.res = OkTree(ret.of)

\* A tree of four leaves at depths 1, 2, 3, 3 went from finish through
\* from_leaves
C18_Witness ==
    /\ dom = "tree" /\ call.fn = "finish" /\ ret.kind = "Rebuilt"
    /\ Len(ret.of) = 4 /\ ret.of[4].depth = 3

\* The TapTree values a state holds
TreesHeld ==
    IF ret.kind = "Ok" THEN { ret.tree }
    ELSE IF ret.kind \in { "Rebuilt", "Mapped" }
         THEN { ret.of } \cup (IF ret.res.kind = "Ok" THEN { ret.res.tree } ELSE {})
    ELSE IF ret.kind = "Shown" THEN { ret.of }
    ELSE {}

\* C19: every TapTree obtained through with_single_leaf, from_leaves,
\* from_builder, finish, map or Default holds at least one leaf.
C19_TreeNeverEmpty ==
    dom = "tree" => \A t \in TreesHeld : Len(t) >= 1

IsScript(c) == c \notin { "{", "}", "," }

Count(written, c) == Cardinality({ i \in 1 .. Len(written) : written[i] = c })

\* The leaf scripts written in a text, in the order written
ScriptsWritten(written) == SelectSeq(written, IsScript)

\* C20: Display of a finalized TapTree writes every leaf's script in leaf
\* order, as many `{` as `}`, and a `,` between the two children of every
\* branch: n - 1 commas for a tree of n leaves.
C20_DisplayWellFormed ==
    (dom = "tree" /\ ret.kind = "Shown" /\ call.fn # "default") =>
        /\ ret.res.kind = "text"
        /\ ScriptsWritten(ret.res.text) = [i \in 1 .. Len(ret.of) |-> ret.of[i].script]
        /\ Count(ret.res.text, "{") = Count(ret.res.text, "}")
        /\ Count(ret.res.text, ",") = Len(ret.of) - 1

-----------------------------------------------------------------------------
(* Claims: derivation paths and segments as text *)

\* C21: for every derivation path p (hardened-only, normal-only or mixed),
\* Display writes each element preceded by `/`, from_str(p.to_string()) is
\* Ok(p), and the text without the leading `/` parses to the same path.
C21_PathRoundTrip ==
    (dom = "pathtext" /\ call.fn = "to_string") =>
        /\ ret.kind = "text" =>
               Len(SelectSeq(ret.s, LAMBDA c : c = "/")) = Len(call.p)
        /\ ret.kind = "Parsed" =>
               /\ ret.res = PathOk(call.p)
               /\ ret.bare = ret.res

\* C22: a DerivationPath always has at least one segment: from_str, new,
\* Default, from_iter and the From conversions never give a path of length 0,
\* and from_str rejects the empty string and the string `/`.
C22_PathNeverEmpty ==
    dom = "pathtext" =>
        /\ (call.fn \in { "from_str", "from_str_marked", "new", "default", "from_iter", "from" }
                /\ ret.kind = "Ok") => Len(ret.path) >= 1
        /\ (call.fn = "from_str" /\ call.s \in { <<>>, << "/" >> } /\ ret # NoRet) =>
               ret.kind = "Err"

\* C23: in a hardened path the markers `'`, `h` and `H` are interchangeable
\* element by element: whatever marker each element is written with, the
\* text parses to the DerivationPath<HardenedIndex> whose child numbers are
\* 2^31 + n for each element n.
C23_MarkersInterchangeable ==
    (dom = "pathtext" /\ call.fn = "from_str_marked" /\ ret # NoRet) =>
        /\ ret.kind = "Ok"
        /\ Len(ret.path) = Len(call.ns)
        /\ \A i \in 1 .. Len(call.ns) :
              /\ is_hardened(ret.path[i])
              /\ child_number(ret.path[i]) = HARDENED_INDEX_BOUNDARY + call.ns[i]

\* `/2H/1'` has been parsed as a hardened path
C23_Witness ==
    /\ dom = "pathtext" /\ call.fn = "from_str_marked" /\ ret # NoRet
    /\ call.slash /\ call.ns = << 2, 1 >> /\ call.markers = << "H", "'" >>

\* self has at least Len(master) elements and its first Len(master) elements
\* equal those of master as DerivationIndex values
IsPrefix(ty, self, ty2, master) ==
    /\ Len(self) >= Len(master)
    /\ \A i \in 1 .. Len(master) :
          into_DerivationIndex(ty, self[i]) = into_DerivationIndex(ty2, master[i])

\* C24: shared_prefix(master) returns len(master) exactly when self has at
\* least len(master) elements and its first len(master) elements equal master
\* element-wise after conversion to DerivationIndex, and 0 otherwise;
\* starts_with(master) is true exactly when shared_prefix(master) =
\* len(master), so every path starts with the empty prefix.
C24_SharedPrefix ==
    /\ (dom = "pathtext" /\ call.fn = "shared_prefix" /\ ret # NoRet) =>
           ret.val = (IF IsPrefix(call.ty, call.self, call.ty2, call.master)
                      THEN Len(call.master) ELSE 0)
    /\ (dom = "pathtext" /\ call.fn = "starts_with" /\ ret # NoRet) =>
           /\ ret.val = (IsPrefix(call.ty, call.self, call.ty2, call.master))
           /\ call.master = <<>> => ret.val

\* shared_prefix has answered 0 for a master of two elements of which only
\* the first is shared
C24_Witness ==
    /\ dom = "pathtext" /\ call.fn = "shared_prefix" /\ ret # NoRet
    /\ Len(call.master) = 2 /\ Len(call.self) = 2
    /\ call.self[1] = call.master[1] /\ call.self[2] # call.master[2] /\ call.ty = call.ty2
    /\ ret.val = 0

\* C25: DerivationSeg::from_str accepts exactly a bare index or a text
\* `<i1;...;in>` with one `<` at the start and one `>` at the end holding 1
\* to 8 indexes; `<>`, a segment of 9 variants and every other arrangement of
\* angle brackets are rejected, and every accepted segment has a count
\* between 1 and 8.
C25_SegmentTexts ==
    (dom = "pathtext" /\ call.fn = "seg_from_str" /\ ret # NoRet) =>
        /\ ret.kind = "Ok" <=>
              (call.shape = "bare" \/ (call.shape = "list" /\ call.n \in 1 .. SegMax))
        /\ ret.kind = "Ok" => count(ret.seg) \in 1 .. SegMax

-----------------------------------------------------------------------------
(* Claims: descriptor ids *)

\* The two lowercase hex digits of a byte
HexOf(b) == << HexChars[(b \div 16) + 1], HexChars[(b % 16) + 1] >>

\* C26: for every 8-byte id, Display gives the lowercase hex of bytes 0..4, a
\* single `-`, then the lowercase hex of bytes 4..8 (17 characters), from_str
\* of that text returns the same id, and the conversions from and to [u8; 8]
\* are inverse of each other.
C26_DescrIdRoundTrip ==
    /\ (dom = "descrid" /\ call.fn = "to_string" /\ ret # NoRet) =>
           /\ Len(ret.s) = 17
           /\ ret.s = HexOf(call.bytes[1]) \o HexOf(call.bytes[2]) \o HexOf(call.bytes[3])
                        \o HexOf(call.bytes[4]) \o << "-" >> \o HexOf(call.bytes[5])
                        \o HexOf(call.bytes[6]) \o HexOf(call.bytes[7]) \o HexOf(call.bytes[8])
           /\ ret.kind = "Parsed" => ret.res = [kind |-> "Ok", val |-> ret.id]
    /\ (dom = "descrid" /\ call.fn = "into" /\ ret # NoRet) =>
           /\ ret.val = call.bytes
           /\ ret.back = ret.id

\* The id of bytes de ad be ef be ad ca fe went through Display, as
\* `deadbeef-beadcafe`, and from_str
C26_Witness ==
    /\ dom = "descrid" /\ call.fn = "to_string" /\ ret.kind = "Parsed"
    /\ call.bytes = << 222, 173, 190, 239, 190, 173, 202, 254 >>
    /\ ret.s = << "d", "e", "a", "d", "b", "e", "e", "f", "-",
                  "b", "e", "a", "d", "c", "a", "f", "e" >>

-----------------------------------------------------------------------------
(* Claims: argument patterns *)

IsVariadic(e) == e \in { "VariadicKey", "VariadicLit" }

\* The kind of argument a pattern element stands for
KindOf(e) == CASE e = "VariadicKey" -> "Key" [] e = "VariadicLit" -> "Lit" [] OTHER -> e

\* The arguments match the pattern position by position: one argument for
\* each non-variadic element, one or more for a trailing variadic element
MatchesForm(form, children) ==
    IF form # <<>> /\ IsVariadic(Last(form))
    THEN /\ Len(children) >= Len(form)
         /\ \A i \in 1 .. Len(children) :
               children[i].kind = KindOf(form[Min(i, Len(form))])
    ELSE /\ Len(children) = Len(form)
         /\ \A i \in 1 .. Len(children) : children[i].kind = KindOf(form[i])

\* C27: check_forms(ast, ident, form) returns the argument list exactly when
\* ast.name = ident and the arguments match the pattern position by position
\* (one argument of its kind for each non-variadic element, one or more for a
\* trailing VariadicKey / VariadicLit, none missing or left over), and None in
\* every other case.
C27_CheckFormsExact ==
    (dom = "forms" /\ ret # NoRet) =>
        IF call.ast.name = call.ident /\ MatchesForm(call.form, call.ast.children)
        THEN ret = [some |-> TRUE, children |-> call.ast.children]
        ELSE ~ret.some

-----------------------------------------------------------------------------
(* Claims: Display of a tap tree, batch derivation, base58 *)

\* C28: the assertions in TapTree's Display hold for every finalized tree:
\* the buoy level is non-zero after each leaf has been pushed and zero once
\* all leaves have been pushed, so rendering with the assertions compiled in
\* does not panic.
C28_DisplayAssertionsHold ==
    (dom = "tree" /\ ret.kind = "Shown" /\ call.fn # "default") => ret.res.kind # "panic"

\* C29: derive_batch(change, from, max_count) returns at most max_count items
\* (none when max_count is 0), the i-th being derive(change, from + i), and
\* fewer than max_count only when the normal index range is exhausted after
\* the last derived index.
C29_DeriveBatchCount ==
    (dom = "batch" /\ ret # NoRet) =>
        /\ Len(ret.batch) <= call.max_count
        /\ call.max_count = 0 => ret.batch = <<>>
        /\ \A i \in 1 .. Len(ret.batch) :
              ret.batch[i] = derive(call.change, call.from + (i - 1))
        /\ Len(ret.batch) < call.max_count =>
              call.from + (Len(ret.batch) - 1) = NormalIndexMax

\* C30: for every byte string d, decode(encode(d)) = Ok(d), each leading zero
\* byte of d being encoded as one leading `1` character and decoded back to
\* one zero byte.
C30_Base58RoundTrip ==
    (dom = "base58" /\ call.fn = "encode" /\ ret # NoRet) =>
        /\ leading(ret.s, 49) = leading(call.data, 0)
        /\ ret.kind = "Decoded" => ret.res = [kind |-> "Ok", val |-> call.data]

\* The bytes 00 00 ff went through encode, which wrote two leading `1`, and
\* decode
C30_Witness ==
    /\ dom = "base58" /\ call.fn = "encode" /\ ret.kind = "Decoded"
    /\ call.data = << 0, 0, 255 >> /\ SubSeq(ret.s, 1, 2) = << 49, 49 >>

=============================================================================
